---- MODULE Spec2Model ----
(***************************************************************************)
(* Verification model of the test explorer of vscode-swift:                *)
(*   - the run coordinator (TestRunner.runHandler and the sessions it      *)
(*     drives, TestRunProxy),                                              *)
(*   - the test catalog reconciliation (TestDiscovery.updateTests and      *)
(*     updateTestsFromClasses),                                            *)
(*   - the line-oriented XCTest output parser and its run state,           *)
(*   - the test items of a run: the finders that resolve reported ids,     *)
(*     TestRunProxy's parameterized test cases, TestRunnerTestRunState     *)
(*     and TestRunnerXUnitTestState,                                       *)
(*   - the test discovery through the language server (LSPTestDiscovery),  *)
(*   - the package of a folder (SwiftPackage.loadPackage and the getters   *)
(*     of its state).                                                      *)
(* Each part has its own specification; the variables of the other parts   *)
(* stay at their initial values.                                           *)
(***************************************************************************)
EXTENDS Integers, Sequences, FiniteSets, TLC

VARIABLES
    cfg,        \* the run request: shouldDebug, testKind, hasSwiftTestingTests, ...
    pc,         \* position of TestRunner.runHandler
    cancelled,  \* token.isCancellationRequested
    exitCode,   \* exit code of the build task ("none" until the build has finished)
    testRun,    \* the TestRunProxy
    endCalls,   \* number of calls of TestRunProxy.end()
    exec,       \* the SwiftProcess spawned for each framework
    debug,      \* state of TestRunner.debugSession
    pipe,       \* the named pipe of swift-testing: created (mkfifo), watched
    catalog,    \* the TestController's tree of TestItems
    last,       \* the most recent updateTests call: its arguments and the tree before
    updates,    \* number of updateTests calls so far
    blocks,     \* the tests a run of the test process reports
    output,     \* the text the test process prints
    split,      \* where the stream cuts the output into two chunks
    whole,      \* run state of a parser given the output in one chunk
    parts,      \* run state of a parser given the output in two chunks
    fed,        \* number of chunks given to each parser so far
    host,       \* process.platform of the extension host
    proxy,      \* the TestRunProxy whose test items are resolved
    runState,   \* the TestRunnerTestRunState of that TestRunProxy
    reports,    \* the calls of TestRunProxy.passed, failed and skipped
    lastCall,   \* the most recent call on the test items and what it returned
    events,     \* number of calls on the test items still to be observed
    lspRequest, \* the most recent call of LSPTestDiscovery: method and inputs
    lspResult,  \* what that call returned or threw
    swiftPackage \* the SwiftPackage of a folder, and loadPackage at work for it

runVars == <<cfg, pc, cancelled, exitCode, testRun, endCalls, exec, debug, pipe>>

catalogVars == <<catalog, last, updates>>

parserVars == <<blocks, output, split, whole, parts, fed>>

itemsVars == <<host, proxy, runState, reports, lastCall, events>>

lspVars == <<lspRequest, lspResult>>

packageVars == <<swiftPackage>>

\* what the run coordinator leaves alone
notRunVars == <<catalogVars, parserVars, itemsVars, lspVars, packageVars>>

\* what updateTests leaves alone
notCatalogVars == <<runVars, parserVars, itemsVars, lspVars, packageVars>>

\* what the output parser leaves alone
notParserVars == <<runVars, catalogVars, itemsVars, lspVars, packageVars>>

\* what the calls on the test items leave alone
notItemsVars == <<runVars, catalogVars, parserVars, lspVars, packageVars>>

\* what LSPTestDiscovery leaves alone
notLspVars == <<runVars, catalogVars, parserVars, itemsVars, packageVars>>

\* what SwiftPackage leaves alone
notPackageVars == <<runVars, catalogVars, parserVars, itemsVars, lspVars>>

vars == <<cfg, pc, cancelled, exitCode, testRun, endCalls, exec, debug, pipe,
          catalog, last, updates, blocks, output, split, whole, parts, fed,
          host, proxy, runState, reports, lastCall, events, lspRequest, lspResult,
          swiftPackage>>

(***************************************************************************)
(* Run coordinator                                                         *)
(***************************************************************************)

Frameworks == {"swift-testing", "XCTest"}

\* TestKind, plus the debug profile (runHandler(true, TestKind.standard, token))
TestKind == {"standard", "parallel", "coverage"}

Platforms == {"darwin", "linux", "win32"}

\* exit codes a process or the build task can close with
ExitCodes == {"undefined", "0", "1", "2"}

RunRequests ==
    { [shouldDebug |-> d, testKind |-> k, hasSwiftTestingTests |-> s,
       hasXCTests |-> x, platform |-> p, diagnostics |-> g] :
        d \in BOOLEAN, k \in TestKind, s \in BOOLEAN, x \in BOOLEAN,
        p \in Platforms, g \in BOOLEAN }

\* the four run profiles of setupProfiles: debug always runs TestKind.standard
Profiles == { r \in RunRequests : r.shouldDebug => r.testKind = "standard" }

---------------------------------------------------------------------------
\* TestRunProxy

\* calls of testRunStarted are counted up to this number
MaxStartCalls == 3

\* calls: calls of testRunStarted; created: calls of controller.createTestRun;
\* enqueued: times the test items were marked as enqueued on the test run
\* what `undefined` is in a list of test items
UndefinedItem == [defined |-> FALSE, id |-> <<>>, target |-> "none"]

\* the value of upsertTestItem(this.controller, testClass, parent): the function
\* has no return statement
UpsertTestItemResult(testClass) == UndefinedItem

\* addedTestItems.map(...): what testRunStarted adds to the test items
AddedTestItems(p) ==
    [k \in 1..Len(p.addedTestItems) |-> UpsertTestItemResult(p.addedTestItems[k])]

\* testRunStarted: parent.children.replace([]), then upsertTestItem(controller,
\* testClass, parent) with testClass.location = undefined: the children that the
\* parents of the added cases have afterwards. upsertTestItem returns at once
\* for a TestClass of style swift-testing.
ChildrenOfParents(p) ==
    { [parentIndex |-> a.parentIndex, id |-> a.testClass.id, location |-> "undefined"] :
        a \in { b \in { p.addedTestItems[k] : k \in 1..Len(p.addedTestItems) } :
                  b.testClass.style # "swift-testing" } }

NewTestRunProxy ==
    [runStarted |-> FALSE, testRun |-> FALSE, queuedOutput |-> <<>>,
     output |-> <<>>, ended |-> 0, calls |-> 0, created |-> 0, enqueued |-> 0,
     testItems |-> <<>>, addedTestItems |-> <<>>, children |-> {},
     reported |-> <<>>, appended |-> <<>>]

\* one more call of testRunStarted
Called(p) == [p EXCEPT !.calls = IF @ < MaxStartCalls THEN @ + 1 ELSE @]

\* TestRunStarted gone wrong: no runStarted flag, every call starts the run
TestRunStartedEveryTime(p) ==
    [Called(p) EXCEPT !.runStarted = TRUE, !.testRun = TRUE,
                      !.created = @ + 1, !.enqueued = @ + 1,
                      !.testItems = @ \o AddedTestItems(p),
                      !.children = ChildrenOfParents(p),
                      !.output = @ \o p.queuedOutput, !.queuedOutput = <<>>]

\* testRunStarted: one-time; creates the vscode.TestRun, forwards the queued
\* output and marks the test items as enqueued
TestRunStarted(p) ==
    IF p.runStarted THEN Called(p)
    ELSE [Called(p) EXCEPT !.runStarted = TRUE, !.testRun = TRUE,
                           !.created = @ + 1, !.enqueued = @ + 1,
                           !.testItems = @ \o AddedTestItems(p),
                           !.children = ChildrenOfParents(p),
                           !.output = @ \o p.queuedOutput, !.queuedOutput = <<>>]

\* addParameterizedTestCase: the case waits in addedTestItems for testRunStarted
AddParameterizedTestCase(p, testClass, parentIndex) ==
    [p EXCEPT !.addedTestItems =
                  Append(@, [testClass |-> testClass, parentIndex |-> parentIndex])]

\* passed, failed, skipped, errored: the test is pushed to the list of the status
\* in runState; `reported` is these lists in the order of the calls
Reported(p, test, status) ==
    [p EXCEPT !.reported = Append(@, [test |-> test, status |-> status])]

\* AppendOutput gone wrong: without a TestRun the output is not kept
AppendOutputUnqueued(p, text) ==
    IF p.testRun THEN [p EXCEPT !.output = Append(@, text), !.appended = Append(@, text)]
    ELSE [p EXCEPT !.appended = Append(@, text)]

\* appendOutput: to the TestRun when it exists, queued otherwise; `appended` is
\* the strings appendOutput was called with, `output` the strings the TestRun
\* was given
AppendOutput(p, text) ==
    IF p.testRun THEN [p EXCEPT !.output = Append(@, text), !.appended = Append(@, text)]
    ELSE [p EXCEPT !.queuedOutput = Append(@, text), !.appended = Append(@, text)]

\* end: nothing when no TestRun was created, else (computeCoverage and) testRun.end()
End(p) ==
    IF ~p.testRun THEN p ELSE [p EXCEPT !.ended = @ + 1]

---------------------------------------------------------------------------
\* SwiftProcess of runStandardSession

\* `printed`: the tests whose lines the process has written
NoProcess ==
    [state |-> "none", killed |-> FALSE, cancellation |-> FALSE, didError |-> FALSE,
     code |-> "none", printed |-> {}]

\* Spawned gone wrong: the cancellation listener is not registered
SpawnedNoCancellation(isCancelled) ==
    [state |-> "running", killed |-> FALSE, cancellation |-> FALSE, didError |-> FALSE,
     code |-> "none", printed |-> {}]

\* runStandardSession, spawn succeeded: token.onCancellationRequested(() => exec.kill())
\* is registered before exec.spawn(); registered on a token that is already
\* cancelled, the listener is called right after the spawn.
Spawned(isCancelled) ==
    [state |-> "running", killed |-> isCancelled, cancellation |-> TRUE,
     didError |-> FALSE, code |-> "none", printed |-> {}]

\* runStandardSession, spawn failed: onDidThrowError rejects, the onDidClose that
\* follows returns at didError without disposing the cancellation listener
SpawnFailed ==
    [state |-> "closed", killed |-> FALSE, cancellation |-> TRUE, didError |-> TRUE,
     code |-> "none", printed |-> {}]

\* exec.kill(): acts on a running process only
Kill(e) == IF e.state = "running" THEN [e EXCEPT !.killed = TRUE] ELSE e

\* onDidClose(code) of a process that did not throw: dispose the listener
Closed(e, code) ==
    [e EXCEPT !.state = "closed", !.cancellation = FALSE, !.code = code]

\* Succeeded gone wrong: only 0 is a success
SucceededZeroOnly(code) == code = "0"

\* runStandardSession onDidClose: "undefined or 0 are viewed as success" (!code)
Succeeded(code) == code \in {"undefined", "0"}

\* IsTestFailure gone wrong: exit code 1 is an error like any other
IsTestFailureNever(code) == FALSE

\* launchTests / runCoverageSession / runParallelSession: error !== 1
IsTestFailure(code) == code = "1"

---------------------------------------------------------------------------
\* runHandler

\* BuildFailed gone wrong: an undefined exit code is taken for a success
BuildFailedNonZeroOnly(code) == code \notin {"undefined", "0"}

\* runHandler: exitCode === undefined || exitCode !== 0
BuildFailed(code) == code = "undefined" \/ code # "0"

\* runSession / launchTests: swift-testing runs a parallel request as standard
LaunchKind(fw) ==
    IF fw = "swift-testing" /\ cfg.testKind = "parallel" THEN "standard"
    ELSE cfg.testKind

\* runHandler after the build: debugSession or runSession
SessionEntry ==
    IF cfg.shouldDebug THEN "debug_prepare"
    ELSE IF cfg.hasSwiftTestingTests THEN "swift_prepare"
    ELSE "xctest_prepare"

\* where runSession continues once launchTests of a framework has returned
AfterLaunch(fw) == IF fw = "swift-testing" THEN "xctest_prepare" ELSE "finish"

\* RunningPc gone wrong: launchTests returns without awaiting the process
RunningPcNoAwait(fw) == AfterLaunch(fw)

\* launchTests awaits the promise of runStandardSession, settled by the process
RunningPc(fw) == IF fw = "swift-testing" THEN "swift_running" ELSE "xctest_running"

CoveragePc(fw) == IF fw = "swift-testing" THEN "swift_coverage" ELSE "xctest_coverage"

\* `session` is the debug session of the current debug run, `abandoned` holds the
\* frameworks whose session was still active when the next debug run began, and
\* `other` is a debug session of the window that the runner did not start
NoDebug ==
    [buildConfigs |-> <<>>, index |-> 1, session |-> "none", startSession |-> FALSE,
     cancellation |-> FALSE, terminate |-> FALSE, stopRequested |-> FALSE,
     started |-> <<>>, nulls |-> {}, abandoned |-> {}, other |-> "none",
     otherCancellation |-> FALSE, otherStopRequested |-> FALSE]

\* `watching`: swiftTestOutputParser.watch has resolved; `reading`: the watcher
\* holds the pipe open
NoPipe == [created |-> FALSE, watching |-> FALSE, reading |-> FALSE]

\* mkfifo: "macOS/Linux require us to create the named pipe before we use it"
Mkfifo(p) == IF cfg.platform # "win32" THEN [p EXCEPT !.created = TRUE] ELSE p

\* swiftTestOutputParser.watch(fifoPipePath, runState) has resolved
Watch(p) == [p EXCEPT !.watching = TRUE, !.reading = TRUE]

\* the watcher is not among the sources of the runner; it is given the behaviour
\* most favourable to the runner: when the writer of the pipe (the test process,
\* or the debug session of swift-testing) ends, the watcher reads the end of the
\* stream and closes the pipe
EndOfStream(p, fw) == IF fw = "swift-testing" THEN [p EXCEPT !.reading = FALSE] ELSE p

\* AfterSwiftPrepare gone wrong: the process is launched without the watch
AfterSwiftPrepareNoWatch == "swift_launch"

\* runSession: await this.swiftTestOutputParser.watch(...) comes before launchTests
AfterSwiftPrepare == "swift_watch"

\* the state of a TestRunner after its construction, for a run request
RunStart(request) ==
    /\ cfg = request
    /\ pc = "start"
    /\ cancelled = FALSE
    /\ exitCode = "none"
    /\ testRun = NewTestRunProxy
    /\ endCalls = 0
    /\ exec = [fw \in Frameworks |-> NoProcess]
    /\ debug = NoDebug
    /\ pipe = NoPipe

\* runHandler entry: the build task is queued unless coverage was requested
StartRunHandler ==
    /\ pc = "start"
    /\ pc' = IF cfg.testKind # "coverage" THEN "build" ELSE SessionEntry
    /\ UNCHANGED <<cfg, cancelled, exitCode, testRun, endCalls, exec, debug, pipe, notRunVars>>

\* queueOperation resolves with the build's exit code
BuildTaskCompletes(code) ==
    /\ pc = "build"
    /\ exitCode' = code
    /\ IF BuildFailed(code)
       THEN /\ testRun' = End(testRun)
            /\ endCalls' = endCalls + 1
            /\ pc' = "done"
       ELSE /\ pc' = SessionEntry
            /\ UNCHANGED <<testRun, endCalls>>
    /\ UNCHANGED <<cfg, cancelled, exec, debug, pipe, notRunVars>>

\* getBuildAllTask or queueOperation rejects: runHandler's catch
BuildTaskThrows ==
    /\ pc = "build"
    /\ exitCode' = "threw"
    /\ testRun' = AppendOutput(testRun, "Error")
    /\ pc' = "finish"
    /\ UNCHANGED <<cfg, cancelled, endCalls, exec, debug, pipe, notRunVars>>

\* runSession, swift-testing part up to the cancellation check:
\* mkfifo (not on win32), the launch configuration, token.isCancellationRequested
SwiftPrepare(outcome) ==
    /\ pc = "swift_prepare"
    /\ outcome = "mkfifoFailed" => cfg.platform # "win32"
    /\ CASE outcome = "mkfifoFailed" ->
              /\ testRun' = AppendOutput(testRun, "Error")
              /\ pc' = "finish"
              /\ UNCHANGED pipe
         [] outcome = "nullConfig" ->
              /\ pc' = "xctest_prepare"
              /\ pipe' = Mkfifo(pipe)
              /\ UNCHANGED testRun
         [] OTHER ->
              /\ pc' = IF cancelled THEN "xctest_prepare" ELSE AfterSwiftPrepare
              /\ pipe' = Mkfifo(pipe)
              /\ UNCHANGED testRun
    /\ UNCHANGED <<cfg, cancelled, exitCode, endCalls, exec, debug, notRunVars>>

\* launchTests up to exec.spawn() inside runStandardSession
Launch(fw, p, spawnOk) ==
    /\ exec' = [exec EXCEPT ![fw] = IF spawnOk THEN Spawned(cancelled) ELSE SpawnFailed]
    /\ testRun' = IF spawnOk THEN AppendOutput(p, "banner")
                  ELSE AppendOutput(AppendOutput(p, "banner"), "Error")
    /\ pc' = IF spawnOk THEN RunningPc(fw) ELSE AfterLaunch(fw)

\* swiftTestOutputParser.watch has resolved: "the await simply waits for the
\* watching to be configured"
SwiftWatchResolved ==
    /\ pc = "swift_watch"
    /\ pipe' = Watch(pipe)
    /\ pc' = "swift_launch"
    /\ UNCHANGED <<cfg, cancelled, exitCode, testRun, endCalls, exec, debug, notRunVars>>

\* runSession: launchTests spawns the swift-testing process
SwiftLaunch(spawnOk) ==
    /\ pc = "swift_launch"
    /\ Launch("swift-testing", testRun, spawnOk)
    /\ UNCHANGED <<cfg, cancelled, exitCode, endCalls, debug, pipe, notRunVars>>

\* runSession without XCTest tests
XCTestSkipped ==
    /\ pc = "xctest_prepare"
    /\ ~cfg.hasXCTests
    /\ pc' = "finish"
    /\ UNCHANGED <<cfg, cancelled, exitCode, testRun, endCalls, exec, debug, pipe, notRunVars>>

\* runSession, XCTest part: null configuration or cancelled token return
XCTestNotLaunched(nullConfig) ==
    /\ pc = "xctest_prepare"
    /\ cfg.hasXCTests
    /\ nullConfig \/ cancelled
    /\ pc' = "finish"
    /\ UNCHANGED <<cfg, cancelled, exitCode, testRun, endCalls, exec, debug, pipe, notRunVars>>

\* runSession, XCTest part: testRunStarted, then launchTests spawns the process;
\* runParallelSession calls testRunStarted once more before it
XCTestLaunch(spawnOk) ==
    /\ pc = "xctest_prepare"
    /\ cfg.hasXCTests
    /\ ~cancelled
    /\ Launch("XCTest",
              IF LaunchKind("XCTest") = "parallel"
              THEN TestRunStarted(TestRunStarted(testRun))
              ELSE TestRunStarted(testRun),
              spawnOk)
    /\ UNCHANGED <<cfg, cancelled, exitCode, endCalls, debug, pipe, notRunVars>>

\* the first event read from the swift-testing pipe calls testRunStarted
SwiftTestingEvent ==
    /\ \/ exec["swift-testing"].state = "running"
       \/ /\ debug.session = "active"
          /\ debug.index <= Len(debug.buildConfigs)
          /\ debug.buildConfigs[debug.index] = "swift-testing"
    /\ testRun' = TestRunStarted(testRun)
    /\ UNCHANGED <<cfg, pc, cancelled, exitCode, endCalls, exec, debug, pipe, notRunVars>>

\* the XCTest tests of the run
RunTests == {"t", "u"}

\* the status a test ends with
Statuses == {"passed", "failed"}

\* exec.onDidWrite -> parsedOutputStream.write, for the lines that the XCTest
\* process prints about one test, down to its "passed" or "failed" line: the
\* text is appended to the output and given to xcTestOutputParser.parseResult,
\* which completes the test on the run state. The process prints the lines of
\* a test once; `swift test --parallel` prints them for some tests only.
XCTestWrite(test, status) ==
    /\ exec["XCTest"].state = "running"
    /\ test \notin exec["XCTest"].printed
    /\ exec' = [exec EXCEPT !["XCTest"].printed = @ \cup {test}]
    /\ testRun' = Reported(AppendOutput(testRun, "lines"), test, status)
    /\ UNCHANGED <<cfg, pc, cancelled, exitCode, endCalls, debug, pipe, notRunVars>>

\* the order of the testcase entries in the xUnit report
ReportOrder == <<"t", "u">>

\* xUnitParser.parse(buffer, new TestRunnerXUnitTestState(...)): passTest or
\* failTest for every testcase of the report
ParseXUnit(p, results) ==
    Reported(Reported(p, ReportOrder[1], results[ReportOrder[1]]),
             ReportOrder[2], results[ReportOrder[2]])

\* onDidClose(code) of a running process, and what launchTests does with it
ProcessClose(fw, code) ==
    /\ exec[fw].state = "running"
    /\ pc = RunningPc(fw)
    /\ exec' = [exec EXCEPT ![fw] = Closed(@, code)]
    /\ IF Succeeded(code) \/ IsTestFailure(code)
       THEN /\ pc' = CASE LaunchKind(fw) = "coverage" -> CoveragePc(fw)
                       [] LaunchKind(fw) = "parallel" -> "xctest_report"
                       [] OTHER -> AfterLaunch(fw)
            /\ UNCHANGED testRun
       ELSE /\ pc' = AfterLaunch(fw)
            /\ testRun' = AppendOutput(testRun, "Error")
    /\ pipe' = EndOfStream(pipe, fw)
    /\ UNCHANGED <<cfg, cancelled, exitCode, endCalls, debug, notRunVars>>

\* runCoverageSession: captureCoverage has returned
CaptureCoverage(fw) ==
    /\ pc = CoveragePc(fw)
    /\ pc' = AfterLaunch(fw)
    /\ UNCHANGED <<cfg, cancelled, exitCode, testRun, endCalls, exec, debug, pipe, notRunVars>>

\* ReadXUnitReport gone wrong: an unreadable report is passed over in silence
ReadXUnitReportSilent(readable, results) ==
    /\ pc = "xctest_report"
    /\ testRun' = IF readable THEN AppendOutput(ParseXUnit(testRun, results), "summary")
                  ELSE testRun
    /\ pc' = "finish"
    /\ UNCHANGED <<cfg, cancelled, exitCode, endCalls, exec, debug, pipe, notRunVars>>

\* runParallelSession: the xUnit report is read and parsed, or readFile throws
ReadXUnitReport(readable, results) ==
    /\ pc = "xctest_report"
    /\ testRun' = IF readable THEN AppendOutput(ParseXUnit(testRun, results), "summary")
                  ELSE AppendOutput(testRun, "Error")
    /\ pc' = "finish"
    /\ UNCHANGED <<cfg, cancelled, exitCode, endCalls, exec, debug, pipe, notRunVars>>

\* the cancellation token fires: every registered listener is called
TokenCancelled ==
    /\ ~cancelled
    /\ pc # "done"
    /\ cancelled' = TRUE
    /\ exec' = [fw \in Frameworks |->
                  IF exec[fw].cancellation THEN Kill(exec[fw]) ELSE exec[fw]]
    /\ debug' = [debug EXCEPT
                    !.stopRequested = @ \/ debug.cancellation,
                    !.otherStopRequested = @ \/ debug.otherCancellation]
    /\ UNCHANGED <<cfg, pc, exitCode, testRun, endCalls, pipe, notRunVars>>

\* runHandler's last statement: await this.testRun.end()
RunHandlerEnd ==
    /\ pc = "finish"
    /\ testRun' = End(testRun)
    /\ endCalls' = endCalls + 1
    /\ pc' = "done"
    /\ UNCHANGED <<cfg, cancelled, exitCode, exec, debug, pipe, notRunVars>>

---------------------------------------------------------------------------
\* debugSession

\* debugSession: the configurations pushed to buildConfigs. The swift-testing
\* configuration is pushed inside `if (configuration.diagnostics)`, and all of it
\* happens inside `if (this.testArgs.hasSwiftTestingTests)`.
DebugBuildConfigs(swiftNull, xcNull) ==
    IF ~cfg.hasSwiftTestingTests THEN <<>>
    ELSE (IF ~swiftNull /\ cfg.diagnostics THEN <<"swift-testing">> ELSE <<>>)
         \o (IF cfg.hasXCTests /\ ~xcNull THEN <<"XCTest">> ELSE <<>>)

\* the frameworks for which LaunchConfigurations has no launch configuration
NullConfigurations(swiftNull, xcNull) ==
    (IF swiftNull THEN {"swift-testing"} ELSE {})
        \cup (IF xcNull THEN {"XCTest"} ELSE {})

Range(seq) == { seq[i] : i \in 1..Len(seq) }

\* subscriptions.forEach(sub => sub.dispose())
DisposeSubscriptions(d) ==
    [d EXCEPT !.startSession = FALSE, !.cancellation = FALSE, !.terminate = FALSE,
              !.otherCancellation = FALSE]

\* debugSession up to the debug runs: mkfifo (not on win32) and the configurations
DebugPrepare(mkfifoOk, swiftNull, xcNull) ==
    /\ pc = "debug_prepare"
    /\ ~mkfifoOk => cfg.platform # "win32"
    /\ IF ~mkfifoOk
       THEN /\ testRun' = AppendOutput(testRun, "Error")
            /\ pc' = "finish"
            /\ UNCHANGED <<debug, pipe>>
       ELSE /\ debug' = [debug EXCEPT !.buildConfigs = DebugBuildConfigs(swiftNull, xcNull),
                                      !.nulls = NullConfigurations(swiftNull, xcNull)]
            /\ pipe' = IF "swift-testing" \in Range(DebugBuildConfigs(swiftNull, xcNull))
                       THEN Watch(Mkfifo(pipe)) ELSE Mkfifo(pipe)
            /\ pc' = "debug_next"
            /\ UNCHANGED testRun
    /\ UNCHANGED <<cfg, cancelled, exitCode, endCalls, exec, notRunVars>>

\* debugRuns.reduce: every debug run has resolved
DebugRunsDone ==
    /\ pc = "debug_next"
    /\ debug.index > Len(debug.buildConfigs)
    /\ pc' = "finish"
    /\ UNCHANGED <<cfg, cancelled, exitCode, testRun, endCalls, exec, debug, pipe, notRunVars>>

\* one debug run: subscribe onDidStartDebugSession, call vscode.debug.startDebugging
DebugStartDebugging ==
    /\ pc = "debug_next"
    /\ debug.index <= Len(debug.buildConfigs)
    /\ debug' = [debug EXCEPT !.startSession = TRUE, !.session = "requested",
                              !.started = Append(@, debug.buildConfigs[debug.index]),
                              !.abandoned = IF debug.session = "active"
                                            THEN @ \cup {debug.started[Len(debug.started)]}
                                            ELSE @]
    /\ pc' = "debug_starting"
    /\ UNCHANGED <<cfg, cancelled, exitCode, testRun, endCalls, exec, pipe, notRunVars>>

\* onDidStartDebugSession: the listener subscribes to the cancellation token
DebugSessionStarted ==
    /\ debug.session = "requested"
    /\ debug' = IF debug.startSession
                THEN [debug EXCEPT !.session = "active", !.cancellation = TRUE,
                                   !.stopRequested = cancelled]
                ELSE [debug EXCEPT !.session = "active"]
    /\ UNCHANGED <<cfg, pc, cancelled, exitCode, testRun, endCalls, exec, pipe, notRunVars>>

\* a debug run is a promise that the onDidTerminateDebugSession listener resolves;
\* debugRuns.reduce chains the next run on it
DebugWaitingPc == "debug_waiting"

\* startDebugging(...).then: started, not started, or rejected
DebugStartResult(result) ==
    /\ pc = "debug_starting"
    /\ IF result = "started"
       THEN /\ debug.session # "requested"
            /\ testRun' = IF debug.index = 1 THEN AppendOutput(testRun, "banner")
                          ELSE testRun
            /\ debug' = [debug EXCEPT !.terminate = TRUE]
            /\ pc' = DebugWaitingPc
       ELSE /\ debug.session = "requested"
            /\ debug' = [DisposeSubscriptions(debug) EXCEPT !.session = "none"]
            /\ testRun' = AppendOutput(testRun, "Error")
            /\ pc' = "finish"
    /\ UNCHANGED <<cfg, cancelled, exitCode, endCalls, exec, pipe, notRunVars>>

\* onDidTerminateDebugSession: resolves the debug run when its listener is subscribed
DebugSessionTerminated ==
    /\ debug.session = "active"
    /\ IF debug.terminate
       THEN /\ debug' = [DisposeSubscriptions(debug) EXCEPT
                            !.session = "terminated", !.index = @ + 1]
            /\ pc' = "debug_next"
       ELSE /\ debug' = [debug EXCEPT !.session = "terminated"]
            /\ UNCHANGED pc
    /\ pipe' = EndOfStream(pipe, debug.started[Len(debug.started)])
    /\ UNCHANGED <<cfg, cancelled, exitCode, testRun, endCalls, exec, notRunVars>>

\* the listener given to vscode.debug.onDidTerminateDebugSession takes no
\* parameter: it runs for the termination of whichever session d has become
ListenerResolves(d) ==
    /\ IF debug.terminate
       THEN /\ debug' = [DisposeSubscriptions(d) EXCEPT !.index = @ + 1]
            /\ pc' = "debug_next"
       ELSE /\ debug' = d
            /\ UNCHANGED pc
    /\ UNCHANGED <<cfg, cancelled, exitCode, testRun, endCalls, exec, notRunVars>>

\* a debug session that the runner did not start begins while a debug run is in
\* progress: the onDidStartDebugSession listener, when subscribed, runs for it
\* and subscribes to the cancellation token with that session
OtherSessionStarted ==
    /\ cfg.shouldDebug /\ pc \in {"debug_next", "debug_starting", "debug_waiting"}
    /\ debug.other = "none"
    /\ debug' = IF debug.startSession
                THEN [debug EXCEPT !.other = "active", !.otherCancellation = TRUE,
                                   !.otherStopRequested = cancelled]
                ELSE [debug EXCEPT !.other = "active"]
    /\ UNCHANGED <<cfg, pc, cancelled, exitCode, testRun, endCalls, exec, pipe, notRunVars>>

\* the session that the runner did not start terminates
OtherSessionTerminated ==
    /\ debug.other = "active"
    /\ pc # "done"
    /\ ListenerResolves([debug EXCEPT !.other = "terminated"])
    /\ UNCHANGED pipe

\* a session of an earlier debug run terminates during a later debug run
AbandonedSessionTerminated(fw) ==
    /\ fw \in debug.abandoned
    /\ pc # "done"
    /\ ListenerResolves([debug EXCEPT !.abandoned = @ \ {fw}])
    /\ pipe' = EndOfStream(pipe, fw)

---------------------------------------------------------------------------

RunNext ==
    \/ StartRunHandler
    \/ \E code \in ExitCodes : BuildTaskCompletes(code)
    \/ BuildTaskThrows
    \/ \E outcome \in {"mkfifoFailed", "nullConfig", "ok"} : SwiftPrepare(outcome)
    \/ SwiftWatchResolved
    \/ \E spawnOk \in BOOLEAN : SwiftLaunch(spawnOk)
    \/ XCTestSkipped
    \/ \E nullConfig \in BOOLEAN : XCTestNotLaunched(nullConfig)
    \/ \E spawnOk \in BOOLEAN : XCTestLaunch(spawnOk)
    \/ SwiftTestingEvent
    \/ \E test \in RunTests, status \in Statuses : XCTestWrite(test, status)
    \/ \E fw \in Frameworks, code \in ExitCodes : ProcessClose(fw, code)
    \/ \E fw \in Frameworks : CaptureCoverage(fw)
    \/ \E readable \in BOOLEAN, results \in [RunTests -> Statuses] :
           ReadXUnitReport(readable, results)
    \/ TokenCancelled
    \/ \E ok \in BOOLEAN, sn \in BOOLEAN, xn \in BOOLEAN : DebugPrepare(ok, sn, xn)
    \/ DebugRunsDone
    \/ DebugStartDebugging
    \/ DebugSessionStarted
    \/ \E result \in {"started", "notStarted", "rejected"} : DebugStartResult(result)
    \/ DebugSessionTerminated
    \/ OtherSessionStarted
    \/ OtherSessionTerminated
    \/ \E fw \in Frameworks : AbandonedSessionTerminated(fw)
    \/ RunHandlerEnd

\* the steps runHandler takes by itself once the event it awaits has happened
HandlerSteps ==
    \/ StartRunHandler
    \/ \E outcome \in {"mkfifoFailed", "nullConfig", "ok"} : SwiftPrepare(outcome)
    \/ SwiftWatchResolved
    \/ \E spawnOk \in BOOLEAN : SwiftLaunch(spawnOk)
    \/ XCTestSkipped
    \/ \E nullConfig \in BOOLEAN : XCTestNotLaunched(nullConfig)
    \/ \E spawnOk \in BOOLEAN : XCTestLaunch(spawnOk)
    \/ \E fw \in Frameworks : CaptureCoverage(fw)
    \/ \E readable \in BOOLEAN, results \in [RunTests -> Statuses] :
           ReadXUnitReport(readable, results)
    \/ DebugRunsDone
    \/ RunHandlerEnd

(***************************************************************************)
(* Test catalog: TestDiscovery.updateTests                                 *)
(***************************************************************************)

\* number of updateTests calls in one behaviour
MaxUpdates == 2

Files == {"A.swift", "B.swift"}

\* the TestClass values that discovery reports for an id, without its position
TestClassShapes(id) ==
    IF id = "a"
    THEN { [style |-> "XCTest", label |-> "x", tags |-> <<>>,
            location |-> [uri |-> "A.swift", range |-> "r1"]],
           [style |-> "swift-testing", label |-> "x", tags |-> <<>>,
            location |-> [uri |-> "A.swift", range |-> "r1"]],
           [style |-> "test-target", label |-> "x", tags |-> <<>>,
            location |-> [uri |-> "undefined", range |-> "undefined"]] }
    ELSE { [style |-> "XCTest", label |-> "x", tags |-> <<>>,
            location |-> [uri |-> "B.swift", range |-> "r1"]],
           [style |-> "XCTest", label |-> "y", tags |-> << <<".", "t">> >>,
            location |-> [uri |-> "A.swift", range |-> "r2"]] }

\* the layouts of a snapshot: the parent of each item (0: top level) and its id;
\* the items of a snapshot are in document order, children after their parent
SnapshotLayouts ==
    { [parent |-> <<>>, id |-> <<>>],
      [parent |-> <<0>>, id |-> <<"a">>],
      [parent |-> <<0>>, id |-> <<"b">>],
      [parent |-> <<0, 0>>, id |-> <<"a", "b">>],
      [parent |-> <<0, 1>>, id |-> <<"a", "b">>],
      [parent |-> <<0, 1>>, id |-> <<"b", "a">>] }

\* TestClass[]: the discovery snapshots, whose ids are unique
Snapshots ==
    UNION { { [i \in 1..Len(lay.id) |->
                 [id |-> lay.id[i], parent |-> lay.parent[i], style |-> sh[i].style,
                  label |-> sh[i].label, tags |-> sh[i].tags,
                  location |-> sh[i].location]] :
              sh \in { f \in [1..Len(lay.id) -> TestClassShapes("a")
                                                    \cup TestClassShapes("b")] :
                         \A i \in 1..Len(lay.id) :
                             f[i] \in TestClassShapes(lay.id[i]) } } :
            lay \in SnapshotLayouts }

\* the children of snapshot item i (of the snapshot itself for i = 0), in order
ChildrenOf(snap, i) ==
    SelectSeq([j \in 1..Len(snap) |-> j], LAMBDA j : snap[j].parent = i)

\* a TestController without items; `next` is the identity of the next
\* TestItem object that createTestItem makes
EmptyCatalog == [roots |-> <<>>, node |-> <<>>, next |-> 1]

\* the TestItemCollection of a TestItem (0: testController.items)
Collection(cat, parent) ==
    IF parent = 0 THEN cat.roots ELSE cat.node[parent].children

\* the item of a collection with the given id, 0 when there is none
ItemWithId(cat, parent, id) ==
    LET c == Collection(cat, parent)
        hits == { k \in 1..Len(c) : cat.node[c[k]].id = id }
    IN IF hits = {} THEN 0 ELSE c[CHOOSE k \in hits : TRUE]

\* CollectionGet gone wrong: the existing item is never found
CollectionGetNothing(cat, parent, id) == 0

\* TestItemCollection.get(id)
CollectionGet(cat, parent, id) == ItemWithId(cat, parent, id)

RECURSIVE Subtree(_, _)
\* a TestItem and everything below it
Subtree(cat, obj) ==
    {obj} \cup UNION { Subtree(cat, cat.node[obj].children[k]) :
                        k \in 1..Len(cat.node[obj].children) }

SeqWithout(seq, x) == SelectSeq(seq, LAMBDA y : y # x)

\* TestItemCollection.delete, applied to the collection that holds the item
DeleteItem(cat, obj) ==
    LET parent == cat.node[obj].parent
        gone == Subtree(cat, obj)
    IN [cat EXCEPT
          !.roots = IF parent = 0 THEN SeqWithout(@, obj) ELSE @,
          !.node = [o \in DOMAIN cat.node \ gone |->
                      IF o = parent
                      THEN [cat.node[o] EXCEPT !.children = SeqWithout(@, obj)]
                      ELSE cat.node[o]]]

\* TestItemCollection.add: an item with the same id is replaced where it stands,
\* a new id is appended
CollectionAdd(cat, parent, obj, item) ==
    LET old == ItemWithId(cat, parent, item.id)
        base == IF old # 0 /\ old # obj THEN DeleteItem(cat, old) ELSE cat
        place(c) == IF old = 0 THEN Append(c, obj)
                    ELSE [k \in 1..Len(c) |-> IF c[k] = old THEN obj ELSE c[k]]
        coll == place(Collection(cat, parent))
        nodes == [o \in DOMAIN base.node \cup {obj} |->
                    IF o = obj THEN item
                    ELSE IF o = parent THEN [base.node[o] EXCEPT !.children = coll]
                    ELSE base.node[o]]
    IN [cat EXCEPT !.roots = IF parent = 0 THEN coll ELSE @, !.node = nodes]

\* testController.createTestItem(id, label, uri)
CreateTestItem(id, label, uri, parent) ==
    [id |-> id, label |-> label, uri |-> uri, range |-> "undefined",
     tags |-> <<>>, children |-> <<>>, parent |-> parent]

RECURSIVE InLookup(_, _, _)
\* createIncomingTestLookup.traverse reaches item i of the snapshot
InLookup(snap, i, filterFile) ==
    /\ filterFile = "undefined" \/ snap[i].location.uri = filterFile
    /\ snap[i].parent = 0 \/ InLookup(snap, snap[i].parent, filterFile)

\* createIncomingTestLookup: the ids of the incoming tests
CreateIncomingTestLookup(snap, filterFile) ==
    { snap[i].id : i \in { j \in 1..Len(snap) : InLookup(snap, j, filterFile) } }

\* removeOldTests: the existing item isn't in the map, and is in the filtered file
ShouldRemove(item, lookup, filterFile) ==
    /\ item.id \notin lookup
    /\ filterFile = "undefined" \/ item.uri = filterFile

RECURSIVE RemoveOldTests(_, _, _, _)
RECURSIVE RemoveEach(_, _, _, _)
\* removeOldTests: the children first, then the item itself
RemoveOldTests(cat, obj, lookup, filterFile) ==
    LET cat1 == RemoveEach(cat, cat.node[obj].children, lookup, filterFile)
    IN IF ShouldRemove(cat1.node[obj], lookup, filterFile)
       THEN DeleteItem(cat1, obj)
       ELSE cat1

\* forEach(removeOldTests) over a collection
RemoveEach(cat, objs, lookup, filterFile) ==
    IF objs = <<>> THEN cat
    ELSE RemoveEach(RemoveOldTests(cat, Head(objs), lookup, filterFile),
                    Tail(objs), lookup, filterFile)

\* tag.id.replace(/^\./, "")
StripDot(tag) == IF Len(tag) > 0 /\ tag[1] = "." THEN Tail(tag) ELSE tag

\* upsertTestItem: "a temporary gate on adding swift-testing tests"
IsGated(testItem) == testItem.style = "swift-testing"

RECURSIVE UpsertTestItem(_, _, _, _)
RECURSIVE UpsertEach(_, _, _, _)
\* upsertTestItem(testController, testItem, parent)
UpsertTestItem(cat, snap, i, parent) ==
    LET testItem == snap[i]
        existing == CollectionGet(cat, parent, testItem.id)
        obj == IF existing # 0 THEN existing ELSE cat.next
        newItem == IF existing # 0 THEN cat.node[existing]
                   ELSE CreateTestItem(testItem.id, testItem.label,
                                       testItem.location.uri, parent)
        updated == [newItem EXCEPT
                      !.tags = << <<testItem.style>> >>
                               \o [k \in 1..Len(testItem.tags) |->
                                     StripDot(testItem.tags[k])],
                      !.label = testItem.label,
                      !.range = testItem.location.range]
        added == CollectionAdd([cat EXCEPT !.next = IF existing # 0 THEN @ ELSE @ + 1],
                               parent, obj, updated)
    IN IF IsGated(testItem) THEN cat
       ELSE UpsertEach(added, snap, ChildrenOf(snap, i), obj)

\* forEach(upsertTestItem) over the items of a snapshot level
UpsertEach(cat, snap, items, parent) ==
    IF items = <<>> THEN cat
    ELSE UpsertEach(UpsertTestItem(cat, snap, Head(items), parent),
                    snap, Tail(items), parent)

RECURSIVE ReAddEach(_, _)
\* testController.items.forEach(item => testController.items.add(item))
ReAddEach(cat, objs) ==
    IF objs = <<>> THEN cat
    ELSE ReAddEach(CollectionAdd(cat, 0, Head(objs), cat.node[Head(objs)]), Tail(objs))

\* updateTests(testController, testItems, filterFile)
UpdateTests(cat, snap, filterFile) ==
    LET lookup == CreateIncomingTestLookup(snap, "undefined")
        pruned == IF Len(cat.roots) # 0
                  THEN RemoveEach(cat, cat.roots, lookup, filterFile)
                  ELSE cat
        upserted == UpsertEach(pruned, snap, ChildrenOf(snap, 0), 0)
    IN ReAddEach(upserted, upserted.roots)

NoUpdate ==
    [snap |-> <<>>, filterFile |-> "undefined", before |-> EmptyCatalog,
     explorer |-> TRUE, package |-> <<>>, classes |-> <<>>]

\* the catalog of a new TestController
CatalogStart ==
    /\ catalog = EmptyCatalog
    /\ last = NoUpdate
    /\ updates = 0

\* one call of updateTests with a discovery snapshot and an optional file filter
UpdateTestsCall(snap, filterFile) ==
    /\ updates < MaxUpdates
    /\ catalog' = UpdateTests(catalog, snap, filterFile)
    /\ last' = [NoUpdate EXCEPT !.snap = snap, !.filterFile = filterFile,
                                !.before = catalog]
    /\ updates' = updates + 1
    /\ UNCHANGED notCatalogVars

CatalogNext ==
    \E snap \in Snapshots, filterFile \in Files \cup {"undefined"} :
        UpdateTestsCall(snap, filterFile)

\* ---- updateTestsFromClasses: the test classes under their test targets ----

\* the packages: test target T holds A.swift, test target U holds no file that
\* has tests, library L holds B.swift
Packages ==
    { << [name |-> "T", type |-> "test", files |-> {"A.swift"}],
         [name |-> "U", type |-> "test", files |-> {}],
         [name |-> "L", type |-> "library", files |-> {"B.swift"}] >>,
      << [name |-> "L", type |-> "library", files |-> {"B.swift"}],
         [name |-> "T", type |-> "test", files |-> {"A.swift"}] >> }

\* the discovered classes: in a file of T, in a file of L, or without location
DiscoveredClasses(id) ==
    { [id |-> id, style |-> style, label |-> id, tags |-> <<>>,
       location |-> [uri |-> uri, range |-> IF uri = "undefined" THEN "undefined"
                                            ELSE "r1"]] :
        style \in {"XCTest", "swift-testing"},
        uri \in {"A.swift", "B.swift", "undefined"} }

\* TestClass[]: at most two classes, whose ids differ
ClassLists ==
    { <<>> } \cup { <<a>> : a \in DiscoveredClasses("a") }
        \cup { <<a, b>> : a \in DiscoveredClasses("a"), b \in DiscoveredClasses("b") }

\* swiftPackage.getTargets(TargetType.test)
GetTestTargets(package) == SelectSeq(package, LAMBDA target : target.type = "test")

\* swiftPackage.getTarget(file): the target the file lies in, if any
GetTarget(package, file) ==
    LET at == { k \in 1..Len(package) : file \in package[k].files }
    IN IF at = {} THEN "undefined"
       ELSE package[CHOOSE k \in at : \A j \in at : k <= j]

\* testItems.filter(testItem => testItem.location && getTarget(...) === target)
FilteredItems(package, target, testItems) ==
    SelectSeq(testItems, LAMBDA testItem :
        /\ testItem.location.uri # "undefined"
        /\ GetTarget(package, testItem.location.uri) = target)

\* the TestClass made for a target, as an item of a snapshot
TargetClass(target) ==
    [id |-> target.name, parent |-> 0, style |-> "test-target",
     label |-> target.name, tags |-> <<>>,
     location |-> [uri |-> "undefined", range |-> "undefined"]]

RECURSIVE ChildrenOfTargets(_, _, _, _)
\* the children of targets k, k + 1, ..., each with its target as parent
ChildrenOfTargets(package, targets, testItems, k) ==
    IF k > Len(targets) THEN <<>>
    ELSE LET filteredItems == FilteredItems(package, targets[k], testItems)
         IN [j \in 1..Len(filteredItems) |->
                [id |-> filteredItems[j].id, parent |-> k,
                 style |-> filteredItems[j].style, label |-> filteredItems[j].label,
                 tags |-> filteredItems[j].tags,
                 location |-> filteredItems[j].location]]
            \o ChildrenOfTargets(package, targets, testItems, k + 1)

\* getTargets(TargetType.test).map(target => ({id, label, children, ...})), as a
\* snapshot: the targets, then the children of each target
TargetsSnapshot(package, testItems) ==
    LET targets == GetTestTargets(package)
    IN [k \in 1..Len(targets) |-> TargetClass(targets[k])]
       \o ChildrenOfTargets(package, targets, testItems, 1)

\* updateTestsFromClasses(folderContext, testItems)
UpdateTestsFromClasses(cat, explorer, package, testItems) ==
    IF ~explorer THEN cat
    ELSE UpdateTests(cat, TargetsSnapshot(package, testItems), "undefined")

\* one call of updateTestsFromClasses, for a folder with or without a test
\* explorer, after the package was loaded or reloaded
UpdateTestsFromClassesCall(explorer, package, testItems) ==
    /\ updates < MaxUpdates
    /\ catalog' = UpdateTestsFromClasses(catalog, explorer, package, testItems)
    /\ last' = [NoUpdate EXCEPT !.snap = TargetsSnapshot(package, testItems),
                                !.before = catalog, !.explorer = explorer,
                                !.package = package, !.classes = testItems]
    /\ updates' = updates + 1
    /\ UNCHANGED notCatalogVars

ClassesNext ==
    \E explorer \in BOOLEAN, package \in Packages, testItems \in ClassLists :
        UpdateTestsFromClassesCall(explorer, package, testItems)

(***************************************************************************)
(* Line-oriented XCTest output parser and its run state                    *)
(*                                                                         *)
(* Output is a sequence of characters.  A line is written with a few       *)
(* characters: "S" t for "Test Case t started", "P"/"F"/"K" t d for        *)
(* "passed"/"failed"/"skipped (d seconds)", "E" t l x for an "error:" line *)
(* of test t at location l with text x, and anything else is plain output. *)
(***************************************************************************)

\* longest run of lines a test prints between its started and its status line
MaxBody == 3

Tests == {"1", "2"}

Newline == "\n"

StartedLine(t) == <<"S", t>>

PassedLine(t) == <<"P", t, "5">>

FailedLine(t) == <<"F", t, "7">>

SkippedLine(t) == <<"K", t, "0">>

\* path:line: error: test : text, at two places of the test's file
ErrorLines(t) == { <<"E", t, "a", "x">>, <<"E", t, "b", "y">> }

\* a line of a failure message that goes on, or any other output
PlainLine == <<"m", "n">>

RECURSIVE SeqsUpTo(_, _)
\* the sequences over S of length at most n
SeqsUpTo(S, n) ==
    IF n = 0 THEN { <<>> }
    ELSE LET shorter == SeqsUpTo(S, n - 1)
         IN shorter \cup { Append(s, x) : s \in shorter, x \in S }

HasError(body) == \E i \in 1..Len(body) : body[i][1] = "E"

\* what one test prints: started, its output, and its status line; a test that
\* reported an error fails
TestBlocks(t, maxBody) ==
    { [test |-> t, body |-> body, status |-> status] :
        body \in SeqsUpTo(ErrorLines(t) \cup {PlainLine}, maxBody),
        status \in {"P", "F", "K"} }

WellFormedBlock(b) == (b.status = "F") <=> HasError(b.body)

StatusLine(b) ==
    CASE b.status = "P" -> PassedLine(b.test)
      [] b.status = "F" -> FailedLine(b.test)
      [] b.status = "K" -> SkippedLine(b.test)

BlockLines(b) == <<StartedLine(b.test)>> \o b.body \o <<StatusLine(b)>>

\* the runs of the model: test 1, then possibly test 2 with at most one line of
\* output
TestRuns ==
    LET first == { b \in TestBlocks("1", MaxBody) : WellFormedBlock(b) }
        second == { b \in TestBlocks("2", 1) : WellFormedBlock(b) }
    IN { <<b>> : b \in first } \cup { <<b1, b2>> : b1 \in first, b2 \in second }

RECURSIVE Join(_)
\* the lines, each ended by a newline
Join(lines) ==
    IF lines = <<>> THEN <<>>
    ELSE Head(lines) \o <<Newline>> \o Join(Tail(lines))

RECURSIVE RunLines(_)
RunLines(run) ==
    IF run = <<>> THEN <<>>
    ELSE BlockLines(Head(run)) \o RunLines(Tail(run))

\* the output of a run; the process may be cut off before the last newline
OutputOf(run, complete) ==
    LET chars == Join(RunLines(run))
    IN IF complete THEN chars ELSE SubSeq(chars, 1, Len(chars) - 1)

\* ---- TestRunnerTestRunState ----

NoFailedTest == [testIndex |-> "none", message |-> <<>>, location |-> "none"]

NewRunState ==
    [excess |-> <<>>,
     failedTest |-> NoFailedTest,
     status |-> [t \in Tests |-> "enqueued"],
     duration |-> [t \in Tests |-> "none"],
     issues |-> [t \in Tests |-> <<>>],
     calls |-> <<>>]

\* getTestItemIndex: the tests of the run are indexed by their names
GetTestItemIndex(id) == id

Started(st, index) ==
    [st EXCEPT !.status[index] = "started",
               !.calls = Append(@, <<"started", index>>)]

\* completed: failed when issues were recorded for the test, else passed
Completed(st, index, duration) ==
    [st EXCEPT !.status[index] = IF Len(st.issues[index]) > 0 THEN "failed"
                                 ELSE "passed",
               !.duration[index] = duration,
               !.calls = Append(@, <<"completed", index, duration>>)]

RecordIssueKeepsLast(st, index, message, location) ==
    [st EXCEPT !.issues[index] = <<[message |-> message, location |-> location]>>,
               !.calls = Append(@, <<"recordIssue", index, message, location>>)]

\* recordIssue: the message is pushed onto the test's list of issues
RecordIssue(st, index, message, location) ==
    [st EXCEPT !.issues[index] =
                   Append(@, [message |-> message, location |-> location]),
               !.calls = Append(@, <<"recordIssue", index, message, location>>)]

Skipped(st, index) ==
    [st EXCEPT !.status[index] = "skipped",
               !.calls = Append(@, <<"skipped", index>>)]

\* ---- the parser ----

IsStartedLine(line) == Len(line) = 2 /\ line[1] = "S" /\ line[2] \in Tests

IsStatusLine(line) ==
    Len(line) = 3 /\ line[1] \in {"P", "F", "K"} /\ line[2] \in Tests

IsErrorLine(line) == Len(line) = 4 /\ line[1] = "E" /\ line[2] \in Tests

\* a pending failure message is recorded as one issue at its own location
FlushFailedTest(st) ==
    IF st.failedTest = NoFailedTest THEN st
    ELSE [RecordIssue(st, st.failedTest.testIndex, st.failedTest.message,
                      st.failedTest.location)
             EXCEPT !.failedTest = NoFailedTest]

StartTest(st, index) == [Started(st, index) EXCEPT !.failedTest = NoFailedTest]

\* an "error:" line ends the failure message before it and starts the next
StartErrorMessage(st, index, text, location) ==
    [FlushFailedTest(st) EXCEPT !.failedTest =
        [testIndex |-> index, message |-> <<text>>, location |-> location]]

\* any other line belongs to the failure message being collected, if any
ContinueErrorMessage(st, line) ==
    IF st.failedTest = NoFailedTest THEN st
    ELSE [st EXCEPT !.failedTest.message = Append(@, line)]

\* a status line: the pending message is flushed, then the test is finalized
FinishTest(st, kind, index, duration) ==
    LET flushed == FlushFailedTest(st)
    IN IF kind = "K" THEN Skipped(flushed, index)
       ELSE Completed(flushed, index, duration)

ParseLine(st, line) ==
    CASE IsStartedLine(line) -> StartTest(st, GetTestItemIndex(line[2]))
      [] IsStatusLine(line) ->
            FinishTest(st, line[1], GetTestItemIndex(line[2]), line[3])
      [] IsErrorLine(line) ->
            StartErrorMessage(st, GetTestItemIndex(line[2]), line[4], line[3])
      [] OTHER -> ContinueErrorMessage(st, line)

RECURSIVE SplitOnNewline(_)
\* text.split("\n")
SplitOnNewline(chars) ==
    LET at == { i \in 1..Len(chars) : chars[i] = Newline }
    IN IF at = {} THEN <<chars>>
       ELSE LET first == CHOOSE i \in at : \A j \in at : i <= j
            IN <<SubSeq(chars, 1, first - 1)>>
                   \o SplitOnNewline(SubSeq(chars, first + 1, Len(chars)))

RECURSIVE ParseLines(_, _)
ParseLines(st, lines) ==
    IF lines = <<>> THEN st
    ELSE ParseLines(ParseLine(st, Head(lines)), Tail(lines))

WithoutExcess(st, chunk) == chunk

\* the partial line kept from the chunk before is put in front of this chunk
WithExcess(st, chunk) == st.excess \o chunk

\* parseResult: the complete lines are parsed; what follows the last newline is
\* kept in excess for the next call
ParseResult(st, chunk) ==
    LET pieces == SplitOnNewline(WithExcess(st, chunk))
        lines == SubSeq(pieces, 1, Len(pieces) - 1)
    IN [ParseLines(st, lines) EXCEPT !.excess = pieces[Len(pieces)]]

\* no output yet
ParserIdle ==
    /\ blocks = <<>>
    /\ output = <<>>
    /\ split = 0
    /\ whole = NewRunState
    /\ parts = NewRunState
    /\ fed = [whole |-> 0, parts |-> 0]

\* a run's output, and the place where the stream cuts it into two chunks
ParserStart(run, complete, at) ==
    /\ blocks = run
    /\ output = OutputOf(run, complete)
    /\ split = at
    /\ whole = NewRunState
    /\ parts = NewRunState
    /\ fed = [whole |-> 0, parts |-> 0]

\* the output arrives in one chunk
ParseWhole ==
    /\ fed.whole = 0
    /\ whole' = ParseResult(whole, output)
    /\ fed' = [fed EXCEPT !.whole = 1]
    /\ UNCHANGED <<blocks, output, split, parts, notParserVars>>

\* the output arrives in two chunks: the first
ParseFirstChunk ==
    /\ fed.parts = 0
    /\ parts' = ParseResult(parts, SubSeq(output, 1, split))
    /\ fed' = [fed EXCEPT !.parts = 1]
    /\ UNCHANGED <<blocks, output, split, whole, notParserVars>>

\* the second
ParseSecondChunk ==
    /\ fed.parts = 1
    /\ parts' = ParseResult(parts, SubSeq(output, split + 1, Len(output)))
    /\ fed' = [fed EXCEPT !.parts = 2]
    /\ UNCHANGED <<blocks, output, split, whole, notParserVars>>

ParserNext == ParseWhole \/ ParseFirstChunk \/ ParseSecondChunk

(***************************************************************************)
(* Test items of a run: the finders, TestRunProxy's parameterized test     *)
(* cases, TestRunnerTestRunState and TestRunnerXUnitTestState              *)
(*                                                                         *)
(* An id is a sequence of name components, so that "ends with" can be      *)
(* told from "equals".  A number is kept in thousandths: 10006 is 10.006.  *)
(***************************************************************************)

\* number of calls on the test items in one behaviour
MaxEvents == 2

\* a vscode.TestItem of the run; target is the label of item.parent?.parent
TestItem(id, target) == [defined |-> TRUE, id |-> id, target |-> target]

\* the test items of the model: test m of targets T and U, a test m without a
\* target above it, and test n of target T
TestItems ==
    { TestItem(<<"T", "m">>, "T"), TestItem(<<"U", "m">>, "U"),
      TestItem(<<"m">>, "none"), TestItem(<<"T", "n">>, "T") }

\* ids that the test output reports: with the target (Darwin) and without
ReportedIds == { <<"T", "m">>, <<"m">>, <<"n">>, <<"x">> }

\* folderContext.swiftPackage.targets
Targets ==
    { [name |-> "T", path |-> "Tests/T", sources |-> {"a.swift"}],
      [name |-> "U", path |-> "Tests/U", sources |-> {"a.swift", "b.swift"}] }

\* no filename: `undefined` or the empty string
NoFilename == [dir |-> "", name |-> ""]

\* files an error can be reported in, each under one directory of the folder
Filenames ==
    { NoFilename,
      [dir |-> "Tests/T", name |-> "a.swift"],
      [dir |-> "Tests/U", name |-> "b.swift"],
      [dir |-> "Sources/S", name |-> "a.swift"] }

\* the lists of test items given to a finder: every list of at most two items,
\* and three items in two orders
ItemLists ==
    { <<>> } \cup { <<a>> : a \in TestItems }
        \cup { <<a, b>> : a \in TestItems, b \in TestItems }
        \cup { <<TestItem(<<"T", "n">>, "T"), TestItem(<<"U", "m">>, "U"),
                 TestItem(<<"T", "m">>, "T")>>,
               <<TestItem(<<"m">>, "none"), TestItem(<<"T", "m">>, "T"),
                 TestItem(<<"U", "m">>, "U")>> }

\* indices into the test items
TestIndices == {0, 1, 2, 3}

\* a call that returned an index
Returned(index) == [threw |-> FALSE, index |-> index]

\* a call that threw
Threw == [threw |-> TRUE, index |-> 0 - 1]

\* String.prototype.endsWith
EndsWith(s, suffix) ==
    /\ Len(suffix) <= Len(s)
    /\ SubSeq(s, Len(s) - Len(suffix) + 1, Len(s)) = suffix

\* Array.prototype.findIndex: the callback is called on the elements in order
\* until it returns true; on `undefined` it throws (item.id of undefined)
FindIndex(items, Matches(_)) ==
    LET hits == { i \in 1..Len(items) : items[i].defined /\ Matches(items[i]) }
        holes == { i \in 1..Len(items) : ~items[i].defined }
        first(S) == CHOOSE i \in S : \A j \in S : i <= j
    IN IF hits # {} /\ (holes = {} \/ first(hits) < first(holes))
       THEN Returned(first(hits) - 1)
       ELSE IF holes # {} THEN Threw ELSE Returned(0 - 1)

\* testItems[index]
ItemAt(items, index) ==
    IF index + 1 \in 1..Len(items) THEN items[index + 1] ELSE UndefinedItem

\* DarwinGetIndex gone wrong: an item whose id ends with the id is taken
DarwinGetIndexSuffix(items, id) ==
    FindIndex(items, LAMBDA item : EndsWith(item.id, id))

\* DarwinTestItemFinder.getIndex
DarwinGetIndex(items, id) == FindIndex(items, LAMBDA item : item.id = id)

\* path.relative(targetPath, filename)
RelativePath(targetPath, filename) ==
    IF filename.dir = targetPath THEN filename.name ELSE "../" \o filename.name

\* NonDarwinTestItemFinder.isTestWithFilenameInTarget
IsTestWithFilenameInTarget(testName, filename, item) ==
    /\ EndsWith(item.id, testName)
    /\ item.target # "none"
    /\ \E target \in Targets :
          /\ target.name = item.target
          /\ RelativePath(target.path, filename) \in target.sources

\* NonDarwinGetIndex gone wrong: the file of the error is not looked at
NonDarwinGetIndexNoFile(items, id, filename) ==
    FindIndex(items, LAMBDA item : EndsWith(item.id, id))

\* NonDarwinTestItemFinder.getIndex
NonDarwinGetIndex(items, id, filename) ==
    LET inTarget ==
            IF filename # NoFilename
            THEN FindIndex(items,
                           LAMBDA item : IsTestWithFilenameInTarget(id, filename, item))
            ELSE Returned(0 - 1)
    IN IF ~inTarget.threw /\ inTarget.index = 0 - 1
       THEN FindIndex(items, LAMBDA item : EndsWith(item.id, id))
       ELSE inTarget

\* TestRunProxy.getTestIndex through TestRunProxy.testItemFinder
GetTestIndex(p, platform, id, filename) ==
    IF platform = "darwin" THEN DarwinGetIndex(p.testItems, id)
    ELSE NonDarwinGetIndex(p.testItems, id, filename)

\* ---- TestRunnerTestRunState ----

NoStartTime == [defined |-> FALSE, value |-> 0]

StartTime(value) == [defined |-> TRUE, value |-> value]

\* start times of the tests, `undefined` when a test is started without one
StartTimes == { NoStartTime, StartTime(10000), StartTime(10002) }

\* the timing of a completion: { timestamp } or { duration }
Timings ==
    { [kind |-> k, value |-> v] : k \in {"timestamp", "duration"}, v \in {6, 10006} }

\* new TestRunnerTestRunState(testRun); the maps are indexed by test index
NewTestRunState ==
    [currentTestItem |-> UndefinedItem, lastTestItem |-> UndefinedItem,
     startTimes |-> [i \in TestIndices |-> NoStartTime],
     issues |-> [i \in TestIndices |-> <<>>]]

\* started(index, startTime)
TestStarted(st, items, index, startTime) ==
    [st EXCEPT !.currentTestItem = ItemAt(items, index),
               !.startTimes[index] = startTime]

\* CompletionThrows gone wrong: a missing start time is passed over
CompletionNeverThrows(st, index, timing) == FALSE

\* completed: "Timestamp was provided on test completion, but there was no
\* startTime set when the test was started."
CompletionThrows(st, index, timing) ==
    timing.kind = "timestamp" /\ ~st.startTimes[index].defined

\* CompletedDuration gone wrong: an explicit duration is passed on as it is
CompletedDurationUnscaled(st, index, timing) ==
    IF timing.kind = "timestamp"
    THEN (timing.value - st.startTimes[index].value) * 1000
    ELSE timing.value

\* completed: the duration passed to TestRunProxy.passed or failed
CompletedDuration(st, index, timing) ==
    IF timing.kind = "timestamp"
    THEN (timing.value - st.startTimes[index].value) * 1000
    ELSE timing.value * 1000

\* CompletedKind gone wrong: the issues of the index are not looked at
CompletedKindPassed(st, index) == "passed"

\* completed: `if (issues.length > 0)` failed, else passed
CompletedKind(st, index) == IF Len(st.issues[index]) > 0 THEN "failed" ELSE "passed"

\* completed: this.testRun.failed(test, issues, duration) or
\* this.testRun.passed(test, duration)
CompletedReport(st, items, index, timing) ==
    [kind |-> CompletedKind(st, index),
     test |-> ItemAt(items, index),
     duration |-> CompletedDuration(st, index, timing),
     message |-> IF Len(st.issues[index]) > 0 THEN "issues" ELSE "none",
     issues |-> st.issues[index]]

\* completed, after the report
TestCompleted(st) ==
    [st EXCEPT !.lastTestItem = st.currentTestItem,
               !.currentTestItem = UndefinedItem]

\* the messages of the issues of a run
IssueMessages == {"a", "b"}

\* recordIssue: the message is pushed to the list of the index
TestRecordIssue(st, index, message) == [st EXCEPT !.issues[index] = Append(@, message)]

\* skipped: this.testRun.skipped(this.testRun.testItems[index])
SkippedReport(items, index) ==
    [kind |-> "skipped", test |-> ItemAt(items, index), duration |-> 0,
     message |-> "none", issues |-> <<>>]

\* ---- TestRunnerXUnitTestState ----

\* the `time` of an xUnit entry
XUnitDurations == {6}

\* the message of a failed xUnit entry, `undefined` when it has none
XUnitMessages == {"undefined", "text"}

\* new vscode.TestMessage(message ?? "Failed")
XUnitMessage(message) == IF message = "undefined" THEN "Failed" ELSE message

\* passTest, failTest, skipTest: the call made on the TestRunProxy for an index
XUnitReport(kind, items, index, duration, message) ==
    [kind |-> kind, test |-> ItemAt(items, index),
     duration |-> IF kind = "skipped" THEN 0 ELSE duration,
     message |-> IF kind = "failed" THEN XUnitMessage(message) ELSE "none",
     issues |-> IF kind = "failed" THEN <<XUnitMessage(message)>> ELSE <<>>]

\* XUnitDispatch gone wrong: an entry is reported whatever its index is
XUnitDispatchAlways(run, kind, items, found, duration, message) ==
    Append(run, XUnitReport(kind, items, found.index, duration, message))

\* passTest, failTest, skipTest: `if (index !== -1)`
XUnitDispatch(run, kind, items, found, duration, message) ==
    IF found.index # 0 - 1
    THEN Append(run, XUnitReport(kind, items, found.index, duration, message))
    ELSE run

\* ---- the calls ----

NoOutcome == [op |-> "none", id |-> <<>>, filename |-> NoFilename,
              index |-> 0, timing |-> [kind |-> "none", value |-> 0],
              message |-> "none", result |-> Returned(0)]

\* nothing was called yet
ItemsIdle ==
    /\ host = "linux"
    /\ proxy = NewTestRunProxy
    /\ runState = NewTestRunState
    /\ reports = <<>>
    /\ lastCall = NoOutcome
    /\ events = 0

\* a run on a platform with the given test items, observed for a number of calls
ItemsStart(platform, items, calls) ==
    /\ host = platform
    /\ proxy = [NewTestRunProxy EXCEPT !.testItems = items]
    /\ runState = NewTestRunState
    /\ reports = <<>>
    /\ lastCall = NoOutcome
    /\ events = calls

\* runState.getTestItemIndex(id, filename)
GetTestIndexCall(id, filename) ==
    /\ events > 0
    /\ lastCall' = [NoOutcome EXCEPT !.op = "getTestIndex", !.id = id,
                                    !.filename = filename,
                                    !.result = GetTestIndex(proxy, host, id, filename)]
    /\ events' = events - 1
    /\ UNCHANGED <<host, proxy, runState, reports, notItemsVars>>

\* an entry of the xUnit report: passTest, failTest or skipTest; the finder is
\* asked without a filename
XUnitEntry(kind, id, duration, message) ==
    LET found == GetTestIndex(proxy, host, id, NoFilename)
    IN /\ events > 0
       /\ reports' = IF found.threw THEN reports
                     ELSE XUnitDispatch(reports, kind, proxy.testItems, found,
                                        duration, message)
       /\ lastCall' = [NoOutcome EXCEPT !.op = kind, !.id = id, !.result = found,
                                       !.timing = [kind |-> "duration",
                                                   value |-> duration],
                                       !.message = message]
       /\ events' = events - 1
       /\ UNCHANGED <<host, proxy, runState, notItemsVars>>

\* the entries of an xUnit report: only a failure has a message
XUnitEntries ==
    { [kind |-> k, id |-> id, duration |-> d, message |-> m] :
        k \in {"passed", "failed", "skipped"}, id \in ReportedIds,
        d \in XUnitDurations, m \in XUnitMessages }

FinderNext ==
    \/ \E id \in ReportedIds, filename \in Filenames : GetTestIndexCall(id, filename)
    \/ \E e \in { x \in XUnitEntries : x.kind # "failed" => x.message = "undefined" } :
           XUnitEntry(e.kind, e.id, e.duration, e.message)

\* ---- a run that discovers parameterized test cases ----

\* the TestClass of a parameterized test case of test m of target T
TestCases == { [id |-> <<"T", "m", c>>, style |-> "swift-testing"] : c \in {"1", "2"} }

\* an event of the swift-testing output registers a test case under its parent,
\* each case once
AddParameterizedTestCaseCall(testClass, parentIndex) ==
    /\ \A k \in 1..Len(proxy.addedTestItems) :
           proxy.addedTestItems[k].testClass # testClass
    /\ proxy' = AddParameterizedTestCase(proxy, testClass, parentIndex)
    /\ UNCHANGED <<host, runState, reports, lastCall, events, notItemsVars>>

\* the run-started callback is called
TestRunStartedCall ==
    /\ proxy' = TestRunStarted(proxy)
    /\ UNCHANGED <<host, runState, reports, lastCall, events, notItemsVars>>

\* runState.started(index, startTime)
StartedCall(index, startTime) ==
    /\ events > 0
    /\ runState' = TestStarted(runState, proxy.testItems, index, startTime)
    /\ lastCall' = [NoOutcome EXCEPT !.op = "started", !.index = index,
                                    !.timing = [kind |-> "startTime",
                                                value |-> startTime.value]]
    /\ events' = events - 1
    /\ UNCHANGED <<host, proxy, reports, notItemsVars>>

\* runState.recordIssue(index, message, location)
RecordIssueCall(index, message) ==
    /\ events > 0
    /\ runState' = TestRecordIssue(runState, index, message)
    /\ lastCall' = [NoOutcome EXCEPT !.op = "recordIssue", !.index = index,
                                    !.message = message]
    /\ events' = events - 1
    /\ UNCHANGED <<host, proxy, reports, notItemsVars>>

\* runState.completed(index, timing): it throws, or it reports the test and
\* moves currentTestItem to lastTestItem
CompletedCall(index, timing) ==
    /\ events > 0
    /\ IF CompletionThrows(runState, index, timing)
       THEN /\ lastCall' = [NoOutcome EXCEPT !.op = "completed", !.index = index,
                                            !.timing = timing, !.result = Threw]
            /\ UNCHANGED <<runState, reports>>
       ELSE /\ lastCall' = [NoOutcome EXCEPT !.op = "completed", !.index = index,
                                            !.timing = timing]
            /\ reports' = Append(reports, CompletedReport(runState, proxy.testItems,
                                                          index, timing))
            /\ runState' = TestCompleted(runState)
    /\ events' = events - 1
    /\ UNCHANGED <<host, proxy, notItemsVars>>

\* runState.skipped(index): it reports the test and moves currentTestItem to
\* lastTestItem
SkippedCall(index) ==
    /\ events > 0
    /\ reports' = Append(reports, SkippedReport(proxy.testItems, index))
    /\ runState' = TestCompleted(runState)
    /\ lastCall' = [NoOutcome EXCEPT !.op = "skipped", !.index = index]
    /\ events' = events - 1
    /\ UNCHANGED <<host, proxy, notItemsVars>>

ProxyNext ==
    \/ \E testClass \in TestCases : AddParameterizedTestCaseCall(testClass, 0)
    \/ TestRunStartedCall
    \/ \E id \in ReportedIds \cup { c.id : c \in TestCases } :
           GetTestIndexCall(id, NoFilename)
    \/ \E index \in {0, 1}, startTime \in StartTimes : StartedCall(index, startTime)
    \/ \E index \in {0, 1}, message \in IssueMessages : RecordIssueCall(index, message)
    \/ \E index \in {0, 1}, timing \in Timings : CompletedCall(index, timing)
    \/ \E index \in {0, 1} : SkippedCall(index)

\* ---- the calls an output parser makes on the run state ----

\* bound on the number of calls of a parser that are observed
MaxCalls == 4

\* a test-ended event with a timestamp, a status line with a duration
ParserTimings == { [kind |-> "timestamp", value |-> 10006], [kind |-> "duration", value |-> 6] }

RunStateNext ==
    \/ \E index \in {0, 1} : StartedCall(index, StartTime(10000))
    \/ \E index \in {0, 1}, message \in IssueMessages : RecordIssueCall(index, message)
    \/ \E index \in {0, 1}, timing \in ParserTimings : CompletedCall(index, timing)
    \/ \E index \in {0, 1} : SkippedCall(index)

(***************************************************************************)
(* Test discovery through the language server: LSPTestDiscovery            *)
(*                                                                         *)
(* An id or a name is a sequence of pieces, "(" and ")" among them.        *)
(***************************************************************************)

\* the targets of the package: name, type, and the files swiftPackage.getTarget
\* finds them for
PackageTargets ==
    { [name |-> "T", type |-> "test", files |-> {"/ws/Tests/T/a.swift"}],
      [name |-> "L", type |-> "library", files |-> {"/ws/Sources/L/b.swift"}] }

\* the files a test is reported in; the last is outside the workspace folder
LspFiles == {"/ws/Tests/T/a.swift", "/ws/Sources/L/b.swift", "/other/c.swift"}

\* isPathInsidePath(fsPath, workspaceRoot.fsPath), for the folder /ws
IsPathInsidePath(fsPath) == fsPath # "/other/c.swift"

\* capabilities.experimental[method]: not advertised, or with a version
NoCapability == [advertised |-> FALSE, version |-> 0]

Capabilities ==
    { NoCapability } \cup { [advertised |-> TRUE, version |-> v] : v \in {1, 2, 3} }

\* SupportsTests gone wrong: any advertised version will do
SupportsAnyVersion(caps) == caps.advertised

\* workspaceTestCaps?.version >= 2
SupportsTests(caps) == caps.advertised /\ caps.version >= 2

\* ids the language server gives its test items
LspIds == { <<"m">>, <<"m", "(", ")">>, <<"m", "(", ")", "(", ")">> }

LspStyles == {"XCTest", "swift-testing"}

\* an LSPTestItem
LspItem(id, style, file, children) ==
    [id |-> id, style |-> style, location |-> [uri |-> file, range |-> "r"],
     children |-> children]

\* a test item without children, with at most one child, and so on downwards
LspLeaves ==
    { LspItem(id, style, file, <<>>) :
        id \in LspIds, style \in LspStyles, file \in LspFiles }

LspSuites ==
    LspLeaves \cup { [leaf EXCEPT !.children = <<child>>] :
                       leaf \in LspLeaves, child \in LspLeaves }

\* the answers of the language server: one tree of three levels at most, or two
\* test items side by side
LspAnswers ==
    { <<>> } \cup { <<suite>> : suite \in LspSuites }
        \cup { << [leaf EXCEPT !.children = <<suite>>] >> :
                  leaf \in { l \in LspLeaves :
                               l.id = <<"m">> /\ l.location.uri = "/ws/Tests/T/a.swift" },
                  suite \in LspSuites }
        \cup { <<a, b>> : a \in LspLeaves, b \in { l \in LspLeaves : l.id = <<"m">> } }

\* client.protocol2CodeConverter.asLocation: the uri string becomes a vscode.Uri
AsLocation(location) ==
    [uri |-> [fsPath |-> location.uri], range |-> location.range]

\* swiftPackage.getTargets(TargetType.test).find(target =>
\*     swiftPackage.getTarget(location.uri.fsPath) === target)
FindTestTarget(location) ==
    { target \in PackageTargets :
        target.type = "test" /\ location.uri.fsPath \in target.files }

\* id.replace(/\(\)$/, "")
ReplaceTrailingParens(id) ==
    IF Len(id) >= 2 /\ id[Len(id) - 1] = "(" /\ id[Len(id)] = ")"
    THEN SubSeq(id, 1, Len(id) - 2)
    ELSE id

\* TransformId gone wrong: the id is rewritten whatever the style is
TransformIdAnyStyle(item, location) ==
    LET found == FindTestTarget(location)
        prefix == IF found # {} THEN <<(CHOOSE target \in found : TRUE).name, ".">>
                  ELSE <<>>
    IN prefix \o ReplaceTrailingParens(item.id)

\* transformId
TransformId(item, location) ==
    LET found == FindTestTarget(location)
        prefix == IF found # {} THEN <<(CHOOSE target \in found : TRUE).name, ".">>
                  ELSE <<>>
    IN IF item.style = "XCTest" THEN prefix \o ReplaceTrailingParens(item.id)
       ELSE item.id

RECURSIVE Transform(_)
\* transform: input.map(item => ({...item, id, location, children}))
Transform(input) ==
    [k \in 1..Len(input) |->
        LET location == AsLocation(input[k].location)
        IN [input[k] EXCEPT !.id = TransformId(input[k], location),
                            !.location = location,
                            !.children = Transform(input[k].children)]]

\* tests.filter(item => isPathInsidePath(asLocation(item.location).uri.fsPath, ...))
TestsInWorkspace(tests) ==
    SelectSeq(tests, LAMBDA item : IsPathInsidePath(AsLocation(item.location).uri.fsPath))

\* nothing was asked of the language server
NoRequest ==
    [method |-> "none", caps |-> NoCapability, answer |-> <<>>, symbols |-> <<>>]

NoResult == [threw |-> FALSE, sent |-> FALSE, tests |-> <<>>]

\* throw new Error("workspace/tests requests not supported")
NotSupported == [threw |-> TRUE, sent |-> FALSE, tests |-> <<>>]

\* getDocumentTests: what it returns or throws, and whether it sent the request
GetDocumentTests(caps, answer) ==
    IF SupportsTests(caps)
    THEN [threw |-> FALSE, sent |-> TRUE, tests |-> Transform(answer)]
    ELSE NotSupported

\* getWorkspaceTests
GetWorkspaceTests(caps, answer) ==
    IF SupportsTests(caps)
    THEN [threw |-> FALSE, sent |-> TRUE, tests |-> Transform(TestsInWorkspace(answer))]
    ELSE NotSupported

\* ---- getTests: the tests among the symbols of a document ----

\* names of the members of a class: two tests, a test with a parameter, a helper
MemberNames ==
    { <<"testA", "(", ")">>, <<"testB", "(", ")">>, <<"testC", "(", "x", ")">>,
      <<"helper", "(", ")">> }

\* func.name.match(/^test.*\(\)/)
IsTestName(name) ==
    /\ name[1] \in {"testA", "testB", "testC"}
    /\ \E i \in 2..(Len(name) - 1) : name[i] = "(" /\ name[i + 1] = ")"

\* func.name.slice(0, func.name.indexOf("("))
FuncName(name) ==
    LET at == { i \in 1..Len(name) : name[i] = "(" }
    IN IF at = {} THEN SubSeq(name, 1, Len(name) - 1)
       ELSE SubSeq(name, 1, (CHOOSE i \in at : \A j \in at : i <= j) - 1)

\* the members of a symbol: methods, and a property
SymbolMembers ==
    { [kind |-> "Method", name |-> n] : n \in MemberNames }
        \cup { [kind |-> "Property", name |-> <<"testA", "(", ")">>] }

TestMethods == { m \in SymbolMembers : m.kind = "Method" /\ IsTestName(m.name) }

\* the symbols of a document: classes, namespaces (extensions) and structs with
\* at most two members
DocumentSymbols ==
    { [kind |-> k, name |-> n, children |-> c] :
        k \in {"Class", "Namespace", "Struct"}, n \in {"A", "B"},
        c \in { <<>> } \cup { <<a>> : a \in SymbolMembers }
                \cup { <<a, b>> : a \in TestMethods, b \in TestMethods } }

\* the documents: at most three symbols, of which the last has one test; a
\* symbol's range is its place in the document
Documents ==
    { <<>> } \cup { <<a>> : a \in DocumentSymbols }
        \cup { <<a, b>> : a \in DocumentSymbols, b \in DocumentSymbols }
        \cup { <<a, b, c>> :
                 a \in { s \in DocumentSymbols :
                           s.kind = "Namespace" /\ Len(s.children) = 0 },
                 b \in { s \in DocumentSymbols : Len(s.children) = 1 },
                 c \in { s \in DocumentSymbols :
                           /\ s.kind = "Class"
                           /\ s.children = << [kind |-> "Method",
                                               name |-> <<"testB", "(", ")">>] >> } }

\* the test methods of a symbol
TestFunctions(symbols, k) ==
    LET methods == SelectSeq([j \in 1..Len(symbols[k].children) |->
                                 [kind |-> symbols[k].children[j].kind,
                                  name |-> symbols[k].children[j].name,
                                  range |-> <<k, j>>]],
                             LAMBDA func : func.kind = "Method" /\ IsTestName(func.name))
    IN [j \in 1..Len(methods) |->
           [name |-> FuncName(methods[j].name),
            location |-> [uri |-> "uri", range |-> methods[j].range]]]

\* no location: a namespace has none
NoLocation == [uri |-> "undefined", range |-> <<>>]

\* getTests, the map: the entry of a class or namespace
ClassEntry(symbols, k) ==
    [name |-> symbols[k].name,
     location |-> IF symbols[k].kind = "Class"
                  THEN [uri |-> "uri", range |-> <<k>>]
                  ELSE NoLocation,
     extension |-> TRUE,
     functions |-> TestFunctions(symbols, k)]

\* MergeEntry gone wrong: an entry with a known name is added once more
AppendEntry(result, current) == Append(result, current)

\* getTests, the reduce: an entry with a known name is merged into it
MergeEntry(result, current) ==
    LET same == { i \in 1..Len(result) : result[i].name = current.name }
    IN IF same # {}
       THEN LET index == CHOOSE i \in same : \A j \in same : i <= j
            IN [result EXCEPT
                  ![index].functions = @ \o current.functions,
                  ![index].location = IF @ # NoLocation THEN @ ELSE current.location,
                  ![index].extension = @ \/ current.extension]
       ELSE Append(result, current)

RECURSIVE ReduceEntries(_, _)
ReduceEntries(result, entries) ==
    IF entries = <<>> THEN result
    ELSE ReduceEntries(MergeEntry(result, Head(entries)), Tail(entries))

\* getTests(symbols, uri)
GetTests(symbols) ==
    LET containers == SelectSeq([k \in 1..Len(symbols) |-> k],
                                LAMBDA k : symbols[k].kind \in {"Class", "Namespace"})
    IN ReduceEntries(<<>>, [i \in 1..Len(containers) |->
                               ClassEntry(symbols, containers[i])])

\* ---- the calls ----

LspIdle ==
    /\ lspRequest = NoRequest
    /\ lspResult = NoResult

\* a behaviour is one call of one of the three methods
GetDocumentTestsCall(caps, answer) ==
    /\ lspRequest = NoRequest
    /\ lspRequest' = [NoRequest EXCEPT !.method = "textDocument/tests",
                                       !.caps = caps, !.answer = answer]
    /\ lspResult' = GetDocumentTests(caps, answer)
    /\ UNCHANGED notLspVars

GetWorkspaceTestsCall(caps, answer) ==
    /\ lspRequest = NoRequest
    /\ lspRequest' = [NoRequest EXCEPT !.method = "workspace/tests",
                                       !.caps = caps, !.answer = answer]
    /\ lspResult' = GetWorkspaceTests(caps, answer)
    /\ UNCHANGED notLspVars

GetTestsCall(symbols) ==
    /\ lspRequest = NoRequest
    /\ lspRequest' = [NoRequest EXCEPT !.method = "documentSymbol", !.symbols = symbols]
    /\ lspResult' = [NoResult EXCEPT !.tests = GetTests(symbols)]
    /\ UNCHANGED notLspVars

LspNext ==
    \/ \E caps \in Capabilities, answer \in LspAnswers : GetDocumentTestsCall(caps, answer)
    \/ \E caps \in Capabilities, answer \in LspAnswers : GetWorkspaceTestsCall(caps, answer)
    \/ \E symbols \in Documents : GetTestsCall(symbols)

(***************************************************************************)
(* The package of a folder: SwiftPackage                                   *)
(*                                                                         *)
(* The text `swift package describe` prints is a sequence of pieces: "{",  *)
(* the rest of a description with its products ("p"), the rest of an       *)
(* object without products ("e"), other text ("w") and the newline ("nl"). *)
(***************************************************************************)

\* longest output of `swift package describe`, in pieces
MaxStdout == 4

\* number of times the package is loaded: by create, then by reload
MaxLoads == 2

Pieces == {"{", "p", "e", "w", "nl"}

Stdouts == UNION { [1..n -> Pieces] : n \in 0..MaxStdout }

\* what the rejected execSwift carries as stderr
Stderrs ==
    {"undefined", "error: root manifest not found",
     "error: Could not find Package.swift", "error: invalid manifest"}

\* what execSwift resolves or rejects with
ExecResults ==
    { [threw |-> FALSE, stdout |-> text, stderr |-> "undefined"] : text \in Stdouts }
        \cup { [threw |-> TRUE, stdout |-> <<>>, stderr |-> e] : e \in Stderrs }

\* SwiftPackageState: PackageContents | Error | undefined
UndefinedState == [kind |-> "undefined", products |-> FALSE]

ErrorState == [kind |-> "Error", products |-> FALSE]

\* an object JSON.parse returned, with or without the member `products`
ObjectState(hasProducts) == [kind |-> "object", products |-> hasProducts]

\* stdout.startsWith("{")
StartsWithBrace(text) == Len(text) > 0 /\ text[1] = "{"

\* stdout.indexOf("\n"), counted from 0; -1 when there is none
IndexOfNewline(text) ==
    LET at == { i \in 1..Len(text) : text[i] = "nl" }
    IN IF at = {} THEN -1 ELSE (CHOOSE i \in at : \A j \in at : i <= j) - 1

\* stdout.slice(start), for start >= 0
Slice(text, start) == SubSeq(text, start + 1, Len(text))

\* the text without the white space at its end
RECURSIVE TrimEnd(_)
TrimEnd(text) ==
    IF Len(text) > 0 /\ text[Len(text)] = "nl"
    THEN TrimEnd(SubSeq(text, 1, Len(text) - 1))
    ELSE text

\* the catch block of loadPackage
CatchError(stderr) ==
    IF /\ stderr # "undefined"
       /\ stderr \in {"error: root manifest not found",
                       "error: Could not find Package.swift"}
    THEN UndefinedState
    ELSE ErrorState

\* return JSON.parse(stdout); a SyntaxError has no stderr
JsonParse(text) ==
    IF TrimEnd(text) = <<"{", "p">> THEN ObjectState(TRUE)
    ELSE IF TrimEnd(text) = <<"{", "e">> THEN ObjectState(FALSE)
    ELSE CatchError("undefined")

\* isPackage: the member `products` of undefined cannot be read
IsPackage(state) ==
    IF state.kind = "undefined" THEN "TypeError"
    ELSE IF state.kind = "object" /\ state.products THEN "true"
    ELSE "false"

\* isError
IsError(state) == state.kind = "Error"

\* get isValid
IsValid(state) == IsPackage(state)

\* get error
ErrorOf(state) == IF IsError(state) THEN "Error" ELSE "undefined"

\* get foundPackage
FoundPackage(state) == state.kind # "undefined"

NotObserved ==
    [read |-> FALSE, isValid |-> "false", error |-> "undefined", foundPackage |-> FALSE]

\* no SwiftPackage yet
NoPackage ==
    [pc |-> "none", created |-> FALSE, loads |-> 0, stdout |-> <<>>,
     contents |-> UndefinedState, observed |-> NotObserved]

PackageIdle == swiftPackage = NoPackage

\* what happens once loadPackage has returned: create makes the SwiftPackage,
\* reload assigns its contents
Loaded(sp, state) ==
    [sp EXCEPT !.pc = "idle", !.created = TRUE, !.contents = state, !.stdout = <<>>,
               !.observed = NotObserved]

\* create or reload calls loadPackage, and execSwift resolves or rejects
LoadPackage(result) ==
    /\ swiftPackage.pc \in {"none", "idle"}
    /\ swiftPackage.loads < MaxLoads
    /\ swiftPackage' =
          IF result.threw
          THEN Loaded([swiftPackage EXCEPT !.loads = @ + 1], CatchError(result.stderr))
          ELSE [swiftPackage EXCEPT !.pc = "loop", !.loads = @ + 1,
                                    !.stdout = result.stdout]
    /\ UNCHANGED notPackageVars

\* one turn of the loop: remove lines until we find a "{"
DiscardLine ==
    /\ swiftPackage.pc = "loop"
    /\ ~StartsWithBrace(swiftPackage.stdout)
    /\ swiftPackage' =
          [swiftPackage EXCEPT
             !.stdout = Slice(@, IndexOfNewline(swiftPackage.stdout) + 1)]
    /\ UNCHANGED notPackageVars

\* the loop is left and the text is parsed
ParseStdout ==
    /\ swiftPackage.pc = "loop"
    /\ StartsWithBrace(swiftPackage.stdout)
    /\ swiftPackage' = Loaded(swiftPackage, JsonParse(swiftPackage.stdout))
    /\ UNCHANGED notPackageVars

\* the three getters are read
ReadGetters ==
    /\ swiftPackage.created
    /\ ~swiftPackage.observed.read
    /\ swiftPackage' =
          [swiftPackage EXCEPT
             !.observed = [read |-> TRUE,
                           isValid |-> IsValid(swiftPackage.contents),
                           error |-> ErrorOf(swiftPackage.contents),
                           foundPackage |-> FoundPackage(swiftPackage.contents)]]
    /\ UNCHANGED notPackageVars

PackageNext ==
    \/ \E result \in ExecResults : LoadPackage(result)
    \/ DiscardLine
    \/ ParseStdout
    \/ ReadGetters

(***************************************************************************)
(* Specifications                                                          *)
(***************************************************************************)

\* the run request of a run coordinator at rest, while another part is checked
IdleRequest ==
    [shouldDebug |-> FALSE, testKind |-> "standard", hasSwiftTestingTests |-> FALSE,
     hasXCTests |-> FALSE, platform |-> "linux", diagnostics |-> FALSE]

\* the run coordinator
Init ==
    \E request \in Profiles :
        RunStart(request) /\ CatalogStart /\ ParserIdle /\ ItemsIdle /\ LspIdle
        /\ PackageIdle

Spec == Init /\ [][RunNext]_vars

\* the event loop runs every continuation that is ready
FairSpec == Spec /\ WF_vars(HandlerSteps)

\* a debug run in which vscode answers every startDebugging call and every
\* session that starts also terminates
DebugFairSpec ==
    /\ FairSpec
    /\ WF_vars(\E ok \in BOOLEAN, sn \in BOOLEAN, xn \in BOOLEAN : DebugPrepare(ok, sn, xn))
    /\ WF_vars(DebugStartDebugging)
    /\ WF_vars(DebugSessionStarted)
    /\ WF_vars(\E result \in {"started", "notStarted", "rejected"} :
                   DebugStartResult(result))
    /\ WF_vars(DebugSessionTerminated)

\* the test catalog under a sequence of updateTests calls
InitCatalog ==
    RunStart(IdleRequest) /\ CatalogStart /\ ParserIdle /\ ItemsIdle /\ LspIdle
        /\ PackageIdle

SpecCatalog == InitCatalog /\ [][CatalogNext]_vars

\* the test catalog under a sequence of updateTestsFromClasses calls
SpecClasses == InitCatalog /\ [][ClassesNext]_vars

\* the output parser given every run's output, whole and cut at every place
InitParser ==
    \E run \in TestRuns, complete \in BOOLEAN :
        \E at \in 0..Len(OutputOf(run, complete)) :
            /\ RunStart(IdleRequest) /\ CatalogStart /\ ItemsIdle /\ LspIdle
            /\ PackageIdle
            /\ ParserStart(run, complete, at)

SpecParser == InitParser /\ [][ParserNext]_vars

\* the finders and the xUnit report state, given lists of test items
InitFinder ==
    \E platform \in {"darwin", "linux"}, items \in ItemLists :
        /\ RunStart(IdleRequest) /\ CatalogStart /\ ParserIdle /\ LspIdle /\ PackageIdle
        /\ ItemsStart(platform, items, MaxEvents)

SpecFinder == InitFinder /\ [][FinderNext]_vars

\* a run of two tests whose output registers parameterized test cases
InitProxy ==
    \E platform \in {"darwin", "linux"} :
        /\ RunStart(IdleRequest) /\ CatalogStart /\ ParserIdle /\ LspIdle /\ PackageIdle
        /\ ItemsStart(platform, <<TestItem(<<"T", "m">>, "T"),
                                  TestItem(<<"T", "n">>, "T")>>, MaxEvents)

SpecProxy == InitProxy /\ [][ProxyNext]_vars

\* the run state of a run of two tests under the calls of an output parser
InitRunState ==
    /\ RunStart(IdleRequest) /\ CatalogStart /\ ParserIdle /\ LspIdle /\ PackageIdle
    /\ ItemsStart("linux", <<TestItem(<<"T", "m">>, "T"),
                             TestItem(<<"T", "n">>, "T")>>, MaxCalls)

SpecRunState == InitRunState /\ [][RunStateNext]_vars

\* LSPTestDiscovery asked for the tests of a workspace or of a document
InitLsp ==
    RunStart(IdleRequest) /\ CatalogStart /\ ParserIdle /\ ItemsIdle /\ LspIdle
        /\ PackageIdle

SpecLsp == InitLsp /\ [][LspNext]_vars

\* a folder whose package is created and reloaded
InitPackage ==
    RunStart(IdleRequest) /\ CatalogStart /\ ParserIdle /\ ItemsIdle /\ LspIdle
        /\ PackageIdle

SpecPackage == InitPackage /\ [][PackageNext]_vars

\* loadPackage runs on once execSwift has resolved
FairSpecPackage == SpecPackage /\ WF_vars(DiscardLine) /\ WF_vars(ParseStdout)

(***************************************************************************)
(* Claims about the run coordinator                                        *)
(***************************************************************************)

\* C1: every execution of runHandler calls end() on the vscode TestRun exactly
\* once, whatever the test kind or mode and however the run went.
C1_EndExactlyOnce == pc = "done" => testRun.ended = 1

\* C2: when the token fires while a process spawned by runStandardSession is
\* running, kill() is called on that process; and once a killed process has
\* closed, runHandler reaches testRun.end() and returns.
C2_CancelKillsAndRunEnds ==
    /\ [][\A fw \in Frameworks :
            (~cancelled /\ cancelled' /\ exec[fw].state = "running")
                => exec'[fw].killed]_vars
    /\ \A fw \in Frameworks :
            (exec[fw].killed /\ exec[fw].state = "closed")
                ~> (pc = "done" /\ endCalls = 1)

\* a process was killed by the cancellation, has closed, and the run handler returned
C2_Witness ==
    /\ cancelled
    /\ \E fw \in Frameworks : exec[fw].killed /\ exec[fw].state = "closed"
    /\ pc = "done"
    /\ endCalls = 1

\* C3: after a build that ended with a non-zero or undefined exit code, the run
\* handler has ended the run and returned, no test process was spawned and no
\* debug session was started.
C3_BuildFailureAborts ==
    exitCode \in {"undefined", "1", "2"} =>
        /\ pc = "done"
        /\ endCalls = 1
        /\ \A fw \in Frameworks : exec[fw].state = "none"
        /\ debug.started = <<>>

\* the build ended with an undefined exit code and the handler returned
C3_Witness == exitCode = "undefined" /\ pc = "done" /\ endCalls = 1

\* C4: in a non-debug run the swift-testing process is spawned first and the
\* XCTest process only after it has closed: while the swift-testing process is
\* running the XCTest process has not been spawned, so the two never run together.
C4_FrameworksSequential ==
    exec["swift-testing"].state = "running" => exec["XCTest"].state = "none"

\* both frameworks were requested, the swift-testing process ran and closed, and
\* the XCTest process is running
C4_Witness ==
    /\ cfg.hasSwiftTestingTests /\ cfg.hasXCTests /\ ~cfg.shouldDebug
    /\ exec["swift-testing"].state = "closed" /\ ~exec["swift-testing"].didError
    /\ exec["XCTest"].state = "running"

(***************************************************************************)
(* Claims about the test catalog                                           *)
(***************************************************************************)

\* the ids of a snapshot
SnapshotIds(snap) == { snap[i].id : i \in 1..Len(snap) }

\* the label, location and tags of a TestItem, without its place in the tree
OwnFields(item) ==
    [id |-> item.id, label |-> item.label, uri |-> item.uri,
     range |-> item.range, tags |-> item.tags]

RECURSIVE ItemOf(_, _, _)
\* the TestItem found for snapshot item i by following the snapshot's parents
\* from the root, 0 when there is none
ItemOf(cat, snap, i) ==
    IF snap[i].parent = 0 THEN ItemWithId(cat, 0, snap[i].id)
    ELSE LET p == ItemOf(cat, snap, snap[i].parent)
         IN IF p = 0 THEN 0 ELSE ItemWithId(cat, p, snap[i].id)

\* C5: applying updateTests a second time with the same snapshot (and filter)
\* leaves the catalog as the first application left it: the same ids under the
\* same parents with the same labels, ranges and tags, no node duplicated, every
\* TestItem object reused and none created.
C5_Idempotent ==
    updates > 0 => UpdateTests(catalog, last.snap, last.filterFile) = catalog

\* an update that changed the catalog and left a tree with a child item
C5_Witness ==
    /\ updates > 0
    /\ catalog # last.before
    /\ \E o \in DOMAIN catalog.node : catalog.node[o].parent # 0

\* C6: updateTests with filterFile = A removes no node located in another file B,
\* at any depth, and leaves B-located nodes absent from the snapshot as they were.
C6_ScopedPruning ==
    last.filterFile # "undefined" =>
        \A o \in DOMAIN last.before.node :
            LET item == last.before.node[o]
            IN item.uri \in Files \ {last.filterFile} =>
                 /\ o \in DOMAIN catalog.node
                 /\ item.id \notin SnapshotIds(last.snap) =>
                        OwnFields(catalog.node[o]) = OwnFields(item)

\* C7: after updateTests(snapshot) without a file filter the catalog's ids are
\* exactly the snapshot's ids: every snapshot item is present under its snapshot
\* parent, and no item whose id is absent from the snapshot remains.
C7_ExactIdSet ==
    (updates > 0 /\ last.filterFile = "undefined") =>
        /\ \A i \in 1..Len(last.snap) : ItemOf(catalog, last.snap, i) # 0
        /\ \A o \in DOMAIN catalog.node :
               catalog.node[o].id \in SnapshotIds(last.snap)

\* C8: after any sequence of updateTests calls no id occurs more than once in the
\* catalog tree (so the ids of every node's children are pairwise distinct too).
C8_UniqueIds ==
    \A o1, o2 \in DOMAIN catalog.node :
        catalog.node[o1].id = catalog.node[o2].id => o1 = o2

(***************************************************************************)
(* Claims about the line-oriented output parser                            *)
(***************************************************************************)

\* what follows the last newline of a text
AfterLastNewline(chars) ==
    LET at == { i \in 1..Len(chars) : chars[i] = Newline }
    IN IF at = {} THEN chars
       ELSE SubSeq(chars, (CHOOSE i \in at : \A j \in at : j <= i) + 1, Len(chars))

IsPrefix(s, t) == Len(s) <= Len(t) /\ SubSeq(t, 1, Len(s)) = s

\* C9: for every output text and every place where it is cut, the parser given
\* the two chunks in order makes the same run-state callbacks and ends in the same
\* run state (status, duration and issues of every test, pending message, excess)
\* as the parser given the text in one chunk; after the first chunk the
\* incomplete last line is in excess and nothing of it has been processed.
C9_SplitEquivalence ==
    /\ (fed.whole = 1 /\ fed.parts = 2) => parts = whole
    /\ fed.parts = 1 => parts.excess = AfterLastNewline(SubSeq(output, 1, split))
    /\ (fed.whole = 1 /\ fed.parts = 1) => IsPrefix(parts.calls, whole.calls)

\* both parsers are done with an output cut inside the status line of a test with
\* two issues
C9_Witness ==
    /\ fed.whole = 1 /\ fed.parts = 2
    /\ split > 0 /\ split < Len(output)
    /\ output[split] # Newline /\ output[split + 1] # Newline
    /\ output[split] \in {"F", "1"}
    /\ Len(whole.issues["1"]) = 2
    /\ whole.status["1"] = "failed"

\* the places of the error lines in what a test printed
ErrorAt(body) == { i \in 1..Len(body) : body[i][1] = "E" }

\* the issue of the error line at place i: its text and the lines up to the next
\* error line, at the error line's own location
IssueAt(body, i) ==
    LET later == { k \in ErrorAt(body) : k > i }
        end == IF later = {} THEN Len(body)
               ELSE (CHOOSE k \in later : \A l \in later : k <= l) - 1
    IN [message |-> <<body[i][4]>> \o SubSeq(body, i + 1, end),
        location |-> body[i][3]]

ExpectedIssues(body) ==
    [j \in 1..Cardinality(ErrorAt(body)) |->
        IssueAt(body, CHOOSE i \in ErrorAt(body) :
                          Cardinality({ k \in ErrorAt(body) : k <= i }) = j)]

\* C10: a test that printed k >= 1 error lines before its status line ends failed
\* with exactly k issues, in order; each issue's message is its error line's text
\* followed by the continuation lines up to the next error line or the status
\* line, and its location is that error line's file and line.
C10_MultiLineFailures ==
    fed.whole = 1 =>
        \A n \in 1..Len(blocks) :
            ( /\ ErrorAt(blocks[n].body) # {}
              /\ (n < Len(blocks) \/ output[Len(output)] = Newline) )
            => /\ whole.issues[blocks[n].test] = ExpectedIssues(blocks[n].body)
               /\ whole.status[blocks[n].test] = "failed"

\* an error line, a continuation line, a second error line and the status line
C10_Witness ==
    /\ fed.whole = 1
    /\ Len(blocks) = 1
    /\ Len(blocks[1].body) = 3
    /\ ErrorAt(blocks[1].body) = {1, 3}
    /\ blocks[1].body[1][3] # blocks[1].body[3][3]
    /\ output[Len(output)] = Newline
    /\ Len(whole.issues["1"]) = 2
    /\ whole.issues["1"][1].message = <<"x", PlainLine>>
    /\ whole.status["1"] = "failed"

(***************************************************************************)
(* Claims about errors, strategies and debug sessions of the run           *)
(* coordinator                                                             *)
(***************************************************************************)

\* the texts given to TestRunProxy.appendOutput so far, queued ones first or last
\* as the proxy holds them
AllOutput(p) == p.output \o p.queuedOutput

\* number of run-level "Error: ..." texts appended so far
ErrorTexts(p) ==
    Cardinality({ i \in 1..Len(AllOutput(p)) : AllOutput(p)[i] = "Error" })

\* C11: the step in which a test process closes appends run-level error text
\* exactly when its exit code is neither 0, undefined nor 1, whatever the
\* strategy; a process that fails to spawn appends error text.
C11_ExitCodeErrorText ==
    [][\A fw \in Frameworks :
          /\ (exec[fw].state = "running" /\ exec'[fw].state = "closed") =>
                ErrorTexts(testRun') = ErrorTexts(testRun)
                    + (IF exec'[fw].code \in {"0", "undefined", "1"} THEN 0 ELSE 1)
          /\ (exec[fw].state = "none" /\ exec'[fw].didError) =>
                ErrorTexts(testRun') = ErrorTexts(testRun) + 1]_vars

\* a parallel run whose process exited with code 1 has ended without error text
C11_Witness ==
    /\ pc = "done"
    /\ cfg.testKind = "parallel"
    /\ exec["XCTest"].code = "1"
    /\ ErrorTexts(testRun) = 0

\* a test process failed to start or closed with a code other than 0, undefined, 1
LaunchFailed(fw) ==
    exec[fw].didError \/ exec[fw].code \notin {"none", "0", "undefined", "1"}

\* C12: when the run has ended after a test process failed to start or closed
\* with a code other than 0, undefined or 1, the error text has been given to the
\* vscode TestRun's appendOutput and the TestRun has been ended.
C12_LaunchFailureSurfaced ==
    (pc = "done" /\ \E fw \in Frameworks : LaunchFailed(fw)) =>
        /\ \E i \in 1..Len(testRun.output) : testRun.output[i] = "Error"
        /\ testRun.ended = 1

\* C13: when the run has ended because the build step failed (non-zero or
\* undefined exit code), run-level output text reporting the failure has been
\* given to the reporting sink.
C13_BuildFailureReported ==
    (pc = "done" /\ exitCode \in {"undefined", "1", "2"}) => AllOutput(testRun) # <<>>

\* exit codes after which a strategy goes on: success, or tests merely failed
RanToEnd == {"0", "undefined", "1"}

\* the step in which the process of fw closes
Closes(fw) == exec[fw].state = "running" /\ exec'[fw].state = "closed"

C15_CoverageCapture ==
    /\ [][\A fw \in Frameworks :
             (Closes(fw) /\ cfg.testKind = "coverage") =>
                 /\ pc' = CoveragePc(fw) <=> exec'[fw].code \in RanToEnd
                 /\ exec'[fw].code \notin RanToEnd =>
                        ErrorTexts(testRun') = ErrorTexts(testRun) + 1]_vars
    /\ [](\A fw \in Frameworks :
             pc = CoveragePc(fw) =>
                 /\ cfg.testKind = "coverage"
                 /\ exec[fw].state = "closed" /\ ~exec[fw].didError
                 /\ exec[fw].code \in RanToEnd)

\* captureCoverage is about to run after a process that exited with undefined
C15_Witness ==
    /\ pc = "swift_coverage"
    /\ exec["swift-testing"].code = "undefined"

\* the request contains tests of the framework
Requested(fw) ==
    IF fw = "swift-testing" THEN cfg.hasSwiftTestingTests ELSE cfg.hasXCTests

\* number of debug sessions the runner asked vscode to start for the framework
SessionsStarted(fw) ==
    Cardinality({ i \in 1..Len(debug.started) : debug.started[i] = fw })

\* C16: when a debug run has ended after a successful build and without any
\* error, one debug session was started for every requested framework that has a
\* launch configuration, whatever the frameworks requested and the diagnostics
\* setting.
C16_DebugSessionPerFramework ==
    (cfg.shouldDebug /\ pc = "done" /\ exitCode = "0" /\ ErrorTexts(testRun) = 0) =>
        \A fw \in Frameworks :
            (Requested(fw) /\ fw \notin debug.nulls) => SessionsStarted(fw) = 1

\* C17: vscode.debug.startDebugging is called for the next configuration only when
\* every earlier debug run has resolved on the termination of its session, so no
\* session of the runner is requested or active at that moment; and once
\* debugSession is over (all runs resolved, or a session failed to start) no
\* further session is started.
C17_DebugSessionsSequential ==
    /\ [][debug.started' # debug.started =>
             /\ debug.session \in {"none", "terminated"}
             /\ debug.index = Len(debug.started) + 1
             /\ debug.index <= Len(debug.buildConfigs)
             /\ debug.started' = Append(debug.started, debug.buildConfigs[debug.index])]_vars
    /\ [][(pc \in {"finish", "done"}) => (debug.started' = debug.started)]_vars

\* C18: in debug mode, when every session the runner starts terminates or fails to
\* start, runHandler reaches this.testRun.end() and returns, whatever the order of
\* the session-start notification, the startDebugging result and the
\* session-terminate notification.
C18_DebugRunEnds ==
    (cfg.shouldDebug /\ pc = "debug_prepare") ~> (pc = "done" /\ endCalls = 1)

\* C19: for swift-testing, in runSession and in debugSession, when the producer
\* (the test process, or the debug session) has been started the pipe watch has
\* resolved, and when the watch has resolved the named pipe has been created with
\* mkfifo, which happens on every platform but Windows.
C19_PipeBeforeProducer ==
    /\ (\/ exec["swift-testing"].state # "none"
        \/ "swift-testing" \in Range(debug.started)) => pipe.watching
    /\ pipe.watching => (pipe.created <=> cfg.platform # "win32")
    /\ pipe.created => cfg.platform # "win32"

\* the swift-testing process runs on a created and watched pipe
C19_Witness ==
    /\ exec["swift-testing"].state = "running"
    /\ pipe.created /\ pipe.watching

\* C20: the run-started callback is one-time. After any number of calls of
\* testRunStarted, in any order (first swift-testing event, immediate start of
\* XCTest, start of the parallel session), the TestRun was created exactly once
\* and the test items were enqueued exactly once; the creating step forwards the
\* queued output, in order, to the TestRun, and from then on nothing is queued
\* and no step forwards or drops output again.
C20_RunStartedOnce ==
    /\ [](testRun.created <= 1 /\ testRun.enqueued = testRun.created)
    /\ [](testRun.runStarted <=> testRun.created = 1)
    /\ [](testRun.calls > 0 => testRun.created = 1)
    /\ [](testRun.runStarted => testRun.queuedOutput = <<>>)
    /\ [][testRun'.created # testRun.created =>
             IsPrefix(testRun.output \o testRun.queuedOutput, testRun'.output)]_vars
    /\ [][IsPrefix(AllOutput(testRun), AllOutput(testRun'))]_vars

\* testRunStarted was called again after the call that forwarded queued output
C20_Witness ==
    /\ testRun.calls >= 2
    /\ testRun.created = 1 /\ testRun.enqueued = 1
    /\ Len(testRun.output) >= 2 /\ testRun.output[1] = "banner"
    /\ exec["swift-testing"].state = "closed" /\ exec["XCTest"].state = "running"

(***************************************************************************)
(* Claims about the test items of a run                                    *)
(***************************************************************************)

\* the node of a test case is found: getTestIndex returns an index, not below
\* 0, of the test item with the id of the case
Resolves(testClass) ==
    LET found == GetTestIndex(proxy, host, testClass.id, NoFilename)
    IN /\ ~found.threw
       /\ found.index >= 0
       /\ ItemAt(proxy.testItems, found.index).defined
       /\ ItemAt(proxy.testItems, found.index).id = testClass.id

\* C21: once the run-started callback has fired, every parameterized test case
\* registered through addParameterizedTestCase, before or after the callback,
\* is resolvable: getTestIndex of its id returns an index >= 0 whose test item
\* is the node of the case.
C21_ParameterizedCaseResolvable ==
    proxy.runStarted =>
        \A k \in 1..Len(proxy.addedTestItems) :
            Resolves(proxy.addedTestItems[k].testClass)

\* the smallest number of a non-empty set of numbers
Least(S) == CHOOSE i \in S : \A j \in S : i <= j

\* the indices (from 0) of the test items whose id is the id
ExactMatches(items, id) == { i - 1 : i \in { j \in 1..Len(items) : items[j].id = id } }

\* the indices (from 0) of the test items whose id ends with the id
SuffixMatches(items, id) ==
    { i - 1 : i \in { j \in 1..Len(items) : EndsWith(items[j].id, id) } }

\* the file is a source of the target with that name
FileInTarget(filename, label) ==
    \E target \in Targets :
        /\ target.name = label
        /\ filename.dir = target.path
        /\ filename.name \in target.sources

\* C25: on Darwin the finder returns the smallest index whose test item has
\* exactly the reported id, and -1 when no test item has exactly that id, also
\* when the id of some item ends with it or begins with it.
C25_DarwinExactMatch ==
    (host = "darwin" /\ lastCall.op # "none") =>
        LET exact == ExactMatches(proxy.testItems, lastCall.id)
        IN /\ ~lastCall.result.threw
           /\ lastCall.result.index = IF exact = {} THEN 0 - 1 ELSE Least(exact)

\* an id that is only the end of the ids of the test items resolves to -1
C25_Witness ==
    /\ host = "darwin" /\ lastCall.op = "getTestIndex"
    /\ lastCall.id = <<"m">>
    /\ SuffixMatches(proxy.testItems, lastCall.id) # {}
    /\ lastCall.result.index = 0 - 1

\* C26: off Darwin, with a filename and some test item whose id ends with the
\* reported id and whose target (the label of its grandparent) has the file
\* among its sources, the finder returns the first such item; otherwise it
\* returns the first item whose id ends with the reported id, or -1 when there
\* is none. An index other than -1 is always that of an item whose id ends with
\* the reported id.
C26_NonDarwinSuffixAndFile ==
    (host # "darwin" /\ lastCall.op = "getTestIndex") =>
        LET suffix == SuffixMatches(proxy.testItems, lastCall.id)
            inTarget == { i \in suffix :
                            FileInTarget(lastCall.filename,
                                         ItemAt(proxy.testItems, i).target) }
            index == lastCall.result.index
        IN /\ ~lastCall.result.threw
           /\ index = IF lastCall.filename # NoFilename /\ inTarget # {}
                      THEN Least(inTarget)
                      ELSE IF suffix # {} THEN Least(suffix) ELSE 0 - 1
           /\ index # 0 - 1 => index \in suffix

\* the file of the error picks the second of two tests named m
C26_Witness ==
    /\ host = "linux" /\ lastCall.op = "getTestIndex"
    /\ lastCall.id = <<"m">>
    /\ lastCall.filename = [dir |-> "Tests/U", name |-> "b.swift"]
    /\ SuffixMatches(proxy.testItems, lastCall.id) = {0, 1}
    /\ lastCall.result.index = 1

\* the entries of an xUnit report
XUnitKinds == {"passed", "failed", "skipped"}

\* C27: an xUnit entry whose id resolves to no test item (index -1) reports
\* nothing and does not throw, whatever was processed before it; an entry that
\* resolves reports its test item, and a failed entry without a message is
\* reported with the message "Failed".
C27_XUnitUnknownIdIgnored ==
    [][(lastCall'.op \in XUnitKinds /\ events' # events) =>
          LET index == lastCall'.result.index
          IN /\ ~lastCall'.result.threw
             /\ index = 0 - 1 => reports' = reports
             /\ index # 0 - 1 =>
                   /\ Len(reports') = Len(reports) + 1
                   /\ SubSeq(reports', 1, Len(reports)) = reports
                   /\ reports'[Len(reports')].kind = lastCall'.op
                   /\ reports'[Len(reports')].test = ItemAt(proxy.testItems, index)
                   /\ (lastCall'.op = "failed" /\ lastCall'.message = "undefined") =>
                         reports'[Len(reports')].message = "Failed"]_vars

\* after an entry that resolved to nothing, a failed entry without a message
C27_Witness ==
    /\ events = MaxEvents - 2 /\ Len(reports) = 1
    /\ lastCall.op = "failed" /\ lastCall.message = "undefined"
    /\ lastCall.result.index # 0 - 1
    /\ reports[1].message = "Failed"

\* a step of runState.completed(index, timing)
CompletedStep == lastCall'.op = "completed" /\ events' # events

\* C28: completed(index, {timestamp}) throws exactly when no start time is
\* recorded for the index (the test was not started, or was started without a
\* start time); then neither passed nor failed is reported and currentTestItem
\* and lastTestItem stay as they are.
C28_TimestampWithoutStart ==
    [][CompletedStep =>
          LET noStart == /\ lastCall'.timing.kind = "timestamp"
                         /\ ~runState.startTimes[lastCall'.index].defined
          IN /\ lastCall'.result.threw <=> noStart
             /\ noStart => /\ reports' = reports
                           /\ runState'.currentTestItem = runState.currentTestItem
                           /\ runState'.lastTestItem = runState.lastTestItem]_vars

\* a test started without a start time is completed by timestamp
C28_Witness ==
    /\ lastCall.op = "completed" /\ lastCall.timing.kind = "timestamp"
    /\ lastCall.result.threw
    /\ runState.currentTestItem.defined
    /\ reports = <<>>

\* a number of seconds, and a number of milliseconds, in microseconds
AsSeconds(n) == n * 1000

AsMilliseconds(n) == n

\* C29: the duration reported for a completed test, which the test run takes
\* in milliseconds, is the completion timestamp minus the start timestamp of
\* the same index (both in seconds) when the completion carries a timestamp,
\* and the duration d (in seconds) when it carries a duration: both forms are
\* reported on one scale.
C29_ReportedDuration ==
    [][(CompletedStep /\ ~lastCall'.result.threw) =>
          LET reported == reports'[Len(reports')].duration
              timing == lastCall'.timing
              start == runState.startTimes[lastCall'.index].value
          IN /\ Len(reports') = Len(reports) + 1
             /\ timing.kind = "timestamp" =>
                   AsMilliseconds(reported) = AsSeconds(timing.value) - AsSeconds(start)
             /\ timing.kind = "duration" =>
                   AsMilliseconds(reported) = AsSeconds(timing.value)]_vars

\* started at 10.0 and completed at 10.006: 6 milliseconds are reported
C29_Witness ==
    /\ lastCall.op = "completed" /\ lastCall.timing.kind = "timestamp"
    /\ lastCall.timing.value = 10006
    /\ runState.startTimes[lastCall.index] = StartTime(10000)
    /\ Len(reports) = 1 /\ reports[1].kind = "passed"
    /\ reports[1].duration = 6000

(***************************************************************************)
(* Claims about the test discovery through the language server             *)
(***************************************************************************)

LspMethods == {"textDocument/tests", "workspace/tests"}

\* the test items of the answer that the method transforms
Transformed(request) ==
    IF request.method = "workspace/tests" THEN TestsInWorkspace(request.answer)
    ELSE request.answer

\* C22: getWorkspaceTests and getDocumentTests throw, without sending the
\* request and without a result, when the capability of the method is not
\* advertised or its version is below 2; with a version of 2 or more they send
\* the request and return one transformed item for each item of the answer.
C22_CapabilityVersion ==
    lspRequest.method \in LspMethods =>
        LET unsupported == ~lspRequest.caps.advertised \/ lspRequest.caps.version < 2
            input == Transformed(lspRequest)
        IN /\ unsupported =>
                 lspResult.threw /\ ~lspResult.sent /\ lspResult.tests = <<>>
           /\ ~unsupported =>
                 /\ ~lspResult.threw /\ lspResult.sent
                 /\ Len(lspResult.tests) = Len(input)
                 /\ \A k \in 1..Len(input) :
                       lspResult.tests[k].id =
                           TransformId(input[k], AsLocation(input[k].location))

\* a server that advertises version 1 and has tests to report
C22_Witness ==
    /\ lspRequest.method = "workspace/tests"
    /\ lspRequest.caps.advertised /\ lspRequest.caps.version = 1
    /\ TestsInWorkspace(lspRequest.answer) # <<>>
    /\ lspResult.threw /\ ~lspResult.sent

\* the id without one "()" at its end
WithoutOneTrailingParens(id) ==
    IF Len(id) >= 2 /\ SubSeq(id, Len(id) - 1, Len(id)) = <<"(", ")">>
    THEN SubSeq(id, 1, Len(id) - 2)
    ELSE id

\* the test targets whose files the item lies in
TestTargetsOf(item) ==
    { target.name : target \in { t \in PackageTargets :
                                   t.type = "test" /\ item.location.uri \in t.files } }

RECURSIVE IdsTransformed(_, _)
\* every item of the result, at every depth, has the id the rule gives its item
IdsTransformed(input, result) ==
    /\ Len(result) = Len(input)
    /\ \A k \in 1..Len(input) :
          /\ input[k].style = "XCTest" =>
                \A name \in TestTargetsOf(input[k]) :
                    result[k].id = <<name, ".">> \o WithoutOneTrailingParens(input[k].id)
          /\ input[k].style # "XCTest" => result[k].id = input[k].id
          /\ IdsTransformed(input[k].children, result[k].children)

\* C23: for an item of style XCTest located in test target T the transformed id
\* is "T." followed by the item's id without one trailing "()"; for an item of
\* another style it is the item's id; this holds for every item at every depth
\* of the tree, by the item's own style.
C23_TransformId ==
    (lspRequest.method \in LspMethods /\ ~lspResult.threw) =>
        IdsTransformed(Transformed(lspRequest), lspResult.tests)

\* an XCTest test m()() of target T below a swift-testing suite m()
C23_Witness ==
    /\ lspRequest.method = "textDocument/tests" /\ ~lspResult.threw
    /\ Len(lspRequest.answer) = 1
    /\ lspRequest.answer[1].style = "swift-testing"
    /\ lspResult.tests[1].id = <<"m", "(", ")">>
    /\ Len(lspRequest.answer[1].children) = 1
    /\ lspRequest.answer[1].children[1].style = "XCTest"
    /\ lspRequest.answer[1].children[1].id = <<"m", "(", ")", "(", ")">>
    /\ lspResult.tests[1].children[1].id = <<"T", ".", "m", "(", ")">>

\* the symbols of the document that getTests looks at, in document order
Containers(symbols) ==
    SelectSeq([k \in 1..Len(symbols) |-> k],
              LAMBDA k : symbols[k].kind \in {"Class", "Namespace"})

RECURSIVE FunctionsOfName(_, _, _)
\* the test methods of the containers with the name, in document order
FunctionsOfName(symbols, containers, name) ==
    IF containers = <<>> THEN <<>>
    ELSE (IF symbols[Head(containers)].name = name
          THEN TestFunctions(symbols, Head(containers)) ELSE <<>>)
             \o FunctionsOfName(symbols, Tail(containers), name)

\* the location of the first class with the name
FirstLocation(symbols, name) ==
    LET classes == { k \in 1..Len(symbols) :
                       symbols[k].kind = "Class" /\ symbols[k].name = name }
    IN IF classes = {} THEN NoLocation
       ELSE [uri |-> "uri", range |-> <<Least(classes)>>]

\* C24: getTests emits no two entries with the same name: the containers with
\* a name are one entry, whose functions are the test methods of these
\* containers in document order and whose location is the first defined one;
\* every entry has extension = true.
C24_GetTestsMerges ==
    lspRequest.method = "documentSymbol" =>
        LET symbols == lspRequest.symbols
            tests == lspResult.tests
        IN /\ \A i, j \in 1..Len(tests) : tests[i].name = tests[j].name => i = j
           /\ \A k \in 1..Len(symbols) :
                 symbols[k].kind \in {"Class", "Namespace"} =>
                     \E i \in 1..Len(tests) : tests[i].name = symbols[k].name
           /\ \A i \in 1..Len(tests) :
                 /\ tests[i].extension
                 /\ tests[i].functions =
                        FunctionsOfName(symbols, Containers(symbols), tests[i].name)
                 /\ tests[i].location = FirstLocation(symbols, tests[i].name)

\* an extension of A with testA, then the class A with testB
C24_Witness ==
    /\ lspRequest.method = "documentSymbol"
    /\ Len(lspRequest.symbols) = 2
    /\ lspRequest.symbols[1].kind = "Namespace" /\ lspRequest.symbols[2].kind = "Class"
    /\ Len(lspResult.tests) = 1
    /\ Len(lspResult.tests[1].functions) = 2
    /\ lspResult.tests[1].functions[1].name = <<"testA">>
    /\ lspResult.tests[1].functions[2].name = <<"testB">>
    /\ lspResult.tests[1].location.range = <<2>>

(***************************************************************************)
(* Claims about upsertTestItem on a known id                               *)
(***************************************************************************)

\* the tags upsertTestItem gives a node: the style, then the item's tags
\* without their leading dot
TagsOf(testItem) ==
    << <<testItem.style>> >>
        \o [k \in 1..Len(testItem.tags) |-> StripDot(testItem.tags[k])]

\* C30: after updateTests, the node of every top-level item of the snapshot
\* whose id was known at the top level before has the item's label, tags (the
\* style among them) and location: the uri of the file and the range, also
\* when the item is now in another file.
C30_UpsertUpdatesInPlace ==
    \A i \in 1..Len(last.snap) :
        (last.snap[i].parent = 0 /\ ItemWithId(last.before, 0, last.snap[i].id) # 0) =>
            LET obj == ItemWithId(catalog, 0, last.snap[i].id)
            IN /\ obj # 0
               /\ catalog.node[obj].label = last.snap[i].label
               /\ catalog.node[obj].tags = TagsOf(last.snap[i])
               /\ catalog.node[obj].uri = last.snap[i].location.uri
               /\ catalog.node[obj].range = last.snap[i].location.range

(***************************************************************************)
(* Claims about cancellation and the debug sessions of other origin        *)
(***************************************************************************)

\* the step in which the cancellation token fires
TokenFires == ~cancelled /\ cancelled'

\* C31: when the cancellation token fires while the debug session of the
\* current debug run is active, that step requests vscode.debug.stopDebugging
\* for the session.
C31_CancelStopsDebugSession ==
    [][(TokenFires /\ debug.session = "active") => debug'.stopRequested]_vars

\* C38: a debug run resolves (debug.index advances) only in the step in which
\* the session that this run started terminates; in particular no step in which
\* another session terminates resolves it, and the next debug run is started
\* only after such a step.
C38_ResolvesOnOwnSessionOnly ==
    [][debug'.index # debug.index =>
          (debug.session = "active" /\ debug'.session = "terminated")]_vars

\* C32: in a run outside the debugger, when the cancellation token has fired
\* after the watch of the swift-testing pipe was requested, the watcher no longer
\* holds the pipe open once runHandler has ended.
C32_CancelStopsPipeWatching ==
    (~cfg.shouldDebug /\ cancelled /\ pc = "done") => ~pipe.reading

(***************************************************************************)
(* Claims about the status a test is reported with                         *)
(***************************************************************************)

\* a step of runState.recordIssue(index, message, location)
RecordIssueStep == lastCall'.op = "recordIssue" /\ events' # events

\* a step of runState.skipped(index)
SkippedStep == lastCall'.op = "skipped" /\ events' # events

\* the step reports the test of the index, once
ReportsOnce(index) ==
    /\ Len(reports') = Len(reports) + 1
    /\ SubSeq(reports', 1, Len(reports)) = reports
    /\ reports'[Len(reports')].test = ItemAt(proxy.testItems, index)

\* C33: the issues kept for an index are the messages recordIssue was called
\* with for it, in the order of the calls; a call of completed(index) that
\* returns makes exactly one report for the test of the index: failed with all
\* those issues when there is at least one, passed otherwise; skipped(index)
\* makes exactly one report, skipped; after either call currentTestItem is
\* undefined.
C33_FailedOverridesPassed ==
    /\ [][IF RecordIssueStep
          THEN runState'.issues =
                   [runState.issues EXCEPT ![lastCall'.index] = Append(@, lastCall'.message)]
          ELSE runState'.issues = runState.issues]_vars
    /\ [][(CompletedStep /\ ~lastCall'.result.threw) =>
             LET recorded == runState.issues[lastCall'.index]
                 report == reports'[Len(reports')]
             IN /\ ReportsOnce(lastCall'.index)
                /\ recorded # <<>> => (report.kind = "failed" /\ report.issues = recorded)
                /\ recorded = <<>> => report.kind = "passed"
                /\ ~runState'.currentTestItem.defined]_vars
    /\ [][SkippedStep =>
             /\ ReportsOnce(lastCall'.index)
             /\ reports'[Len(reports')].kind = "skipped"
             /\ ~runState'.currentTestItem.defined]_vars

\* a started test with two issues is completed: failed, with both issues in
\* the order they were recorded
C33_Witness ==
    /\ lastCall.op = "completed" /\ lastCall.index = 0
    /\ Len(reports) = 1
    /\ reports[1].kind = "failed" /\ reports[1].issues = <<"b", "a">>
    /\ reports[1].test = TestItem(<<"T", "m">>, "T")
    /\ runState.lastTestItem = TestItem(<<"T", "m">>, "T")
    /\ ~runState.currentTestItem.defined

(***************************************************************************)
(* Claims about the nodes of parameterized test cases                      *)
(***************************************************************************)

\* the statically selected test items of the run: args.testItems
SelectedItems == <<TestItem(<<"T", "m">>, "T"), TestItem(<<"T", "n">>, "T")>>

\* C34: after testRunStarted the test items are the statically selected items,
\* at their indices, followed by one node per case that was registered before,
\* in registration order; the node has the id of the case, is a child of the
\* selected item at parentIndex and has no location.
C34_ParameterizedCaseNodes ==
    proxy.runStarted =>
        LET n == Len(proxy.testItems) - Len(SelectedItems)
        IN /\ n >= 0 /\ n <= Len(proxy.addedTestItems)
           /\ SubSeq(proxy.testItems, 1, Len(SelectedItems)) = SelectedItems
           /\ \A k \in 1..n :
                 LET case == proxy.addedTestItems[k]
                     node == proxy.testItems[Len(SelectedItems) + k]
                 IN /\ node.defined
                    /\ node.id = case.testClass.id
                    /\ [parentIndex |-> case.parentIndex, id |-> node.id,
                        location |-> "undefined"] \in proxy.children

(***************************************************************************)
(* Claims about the reports of a run                                       *)
(***************************************************************************)

\* the number of times the test was reported with a terminal status
TimesReported(test) ==
    Cardinality({ i \in 1..Len(testRun.reported) : testRun.reported[i].test = test })

\* C35: in a run of any test kind, every test occurs at most once across
\* runState.passed, failed, skipped and errored.
C35_ReportedAtMostOnce == \A test \in RunTests : TimesReported(test) <= 1

\* C36: while the run is not started the TestRun has been given nothing and
\* the queue holds the strings appendOutput was called with, in call order;
\* once the run is started the TestRun has been given every string
\* appendOutput was called with, once and in call order, the queued ones
\* first, and nothing is queued.
C36_OutputDeliveredInOrder ==
    IF testRun.runStarted
    THEN testRun.output = testRun.appended /\ testRun.queuedOutput = <<>>
    ELSE testRun.output = <<>> /\ testRun.queuedOutput = testRun.appended

\* the banner was queued at the launch of the swift-testing process, the run
\* started at the first event, and the error of the process came afterwards
C36_Witness ==
    /\ ~cfg.hasXCTests
    /\ exec["swift-testing"].state = "closed"
    /\ testRun.runStarted
    /\ testRun.output = <<"banner", "Error">>


(***************************************************************************)
(* Claims about the test targets of the catalog                            *)
(***************************************************************************)

\* the top-level TestItems of the catalog
TopLevelItems == { catalog.roots[k] : k \in 1..Len(catalog.roots) }

\* the test targets of the package of the most recent call
LastTestTargets ==
    { last.package[k] : k \in { j \in 1..Len(last.package) :
                                   last.package[j].type = "test" } }

\* the class has a location whose file belongs to the target
BelongsTo(class, target) ==
    class.location.uri # "undefined" /\ class.location.uri \in target.files

\* the class is a child of the top-level node of the target
PlacedUnder(class, target) ==
    \E obj \in TopLevelItems :
        /\ catalog.node[obj].id = target.name
        /\ \E k \in 1..Len(catalog.node[obj].children) :
              catalog.node[catalog.node[obj].children[k]].id = class.id

\* C37: after updateTestsFromClasses the catalog has exactly one top-level node
\* per test target of the package, with the target's name as id and label, also
\* for a target without tests, and a discovered class is a child of a target's
\* node exactly if it has a location whose file belongs to that target
C37_OneNodePerTestTarget ==
    (updates > 0 /\ last.explorer) =>
        /\ Cardinality(TopLevelItems) = Cardinality(LastTestTargets)
        /\ \A target \in LastTestTargets :
              \E obj \in TopLevelItems :
                  /\ catalog.node[obj].id = target.name
                  /\ catalog.node[obj].label = target.name
        /\ \A k \in 1..Len(last.classes), target \in LastTestTargets :
              PlacedUnder(last.classes[k], target) <=> BelongsTo(last.classes[k], target)


(***************************************************************************)
(* Claims about SwiftPackage                                               *)
(***************************************************************************)

\* the three classes of what the getters answer
ObservedLoaded(o) == o.isValid = "true" /\ o.foundPackage /\ o.error = "undefined"

ObservedLoadError(o) == o.isValid = "false" /\ o.foundPackage /\ o.error # "undefined"

ObservedNotFound(o) == o.isValid = "false" /\ ~o.foundPackage /\ o.error = "undefined"

\* C39: whenever the getters of a SwiftPackage are read, after create and after
\* every reload, none of them throws and they answer as one of the three
\* classes: the one of loaded contents when loadPackage returned the contents,
\* the one of a load error when it returned an Error, the one of no package
\* found when it returned undefined
C39_GettersClassifyState ==
    swiftPackage.observed.read =>
        LET o == swiftPackage.observed
            kind == swiftPackage.contents.kind
        IN /\ o.isValid # "TypeError"
           /\ kind = "object" => ObservedLoaded(o)
           /\ kind = "Error" => ObservedLoadError(o)
           /\ kind = "undefined" => ObservedNotFound(o)

\* C40: loadPackage terminates for every output of `swift package describe`:
\* once execSwift has resolved, the loop that discards the leading lines ends
\* and loadPackage returns
C40_LoadPackageTerminates ==
    (swiftPackage.pc = "loop") ~> (swiftPackage.pc = "idle")

=============================================================================
